---- MODULE Spec2Model ----
(***************************************************************************)
(* Model of the Mote firmware's buffered playback engine                   *)
(* (firmware/src/audio.cpp) and voice session client                       *)
(* (firmware/src/voice_client.cpp).                                        *)
(*                                                                         *)
(* Two execution contexts share the ring buffer:                           *)
(*   - the main context (webSocket.loop() callbacks: text/binary frames,   *)
(*     connect/disconnect, sendVoiceAudio), position pcM;                  *)
(*   - the playback task audioPlaybackTask, position pcC.                  *)
(* Every access to a volatile shared field is one step, so the model       *)
(* contains every interleaving of the two contexts.  A semaphore take with *)
(* a timeout either obtains the mutex (when it is free) or times out (when *)
(* the other context holds it).                                            *)
(*                                                                         *)
(* Samples are not given values: liveSlots records which ring slots hold a *)
(* sample that was accepted by queueAudioData and has been neither         *)
(* dequeued nor discarded by clearAudioBuffer, and discarded records the   *)
(* slots whose samples the last clearAudioBuffer threw away while the      *)
(* scheduler was playing.                                                  *)
(***************************************************************************)
EXTENDS Integers, FiniteSets, Sequences, TLC

\* ------------------------------------------------------------------ sizes
\* The source's sizes, scaled down (audio.cpp:21-23 has 960000, 2048, 16000;
\* audio.cpp:122 has 100).  Their order is kept:
\* AUDIO_PLAYBACK_CHUNK < AUDIO_START_THRESHOLD < AUDIO_RING_BUFFER_SIZE.
AUDIO_RING_BUFFER_SIZE == 5
AUDIO_PLAYBACK_CHUNK == 2
AUDIO_START_THRESHOLD == 3
UNDERRUN_LIMIT == 2
\* Largest sample count of one binary frame.
MaxBurst == 3

\* audio.cpp:8, 11: initial volume (percent) and software gain (percent)
DEFAULT_VOLUME == 70
DEFAULT_GAIN == 300

\* audio.cpp:451, 461, 462: the limits setVolume and setGain clamp to
VOLUME_MAX == 100
GAIN_MIN == 100
GAIN_MAX == 400

\* audio.cpp:62, 64, 65: the divisor and the 16-bit limits of applyVolume
VOLUME_GAIN_DIVISOR == 10000
INT16_MAX == 32767
INT16_MIN == -32768

\* audio.cpp:62: the largest int32_t
INT32_MAX == 2147483647

\* audio.cpp:450, 460: the largest uint8_t and uint16_t argument
UINT8_MAX == 255
UINT16_MAX == 65535

\* audio.h:28
VAD_THRESHOLD == 50

\* audio.h:29: the holdoff, in VAD windows (2000 ms in the firmware)
VAD_HOLDOFF_MS == 2

\* The last tick of the holdoff clock.
MaxClock == 6

\* The samples requested of queueAudioData in a run that numbers them.
MaxSamples == 12
\* main.cpp:52-61 scaled: samples per microphone block, capacity of the
\* recording buffer, minimum length before a silence stop, and the silence
\* duration counted in loop iterations (one blocking microphone read each)
BUFFER_SIZE == 2
MAX_SAMPLES == 9
MIN_RECORDING_SAMPLES == 3
SILENCE_DURATION == 2

\* ------------------------------------------------------------ voice states
VOICE_DISCONNECTED == "DISCONNECTED"
VOICE_IDLE == "IDLE"
VOICE_LISTENING == "LISTENING"
VOICE_PROCESSING == "PROCESSING"
VOICE_SPEAKING == "SPEAKING"
VoiceState ==
    {VOICE_DISCONNECTED, VOICE_IDLE, VOICE_LISTENING, VOICE_PROCESSING, VOICE_SPEAKING}

VARIABLES
    \* audio.cpp, shared (volatile) state
    ringBufferHead,     \* write position
    ringBufferTail,     \* read position
    bufferPlaying,
    streamFinished,
    bufferMutex,        \* "free", "main" or "task"
    \* audio.cpp, playback task
    pcC,                \* position of audioPlaybackTask
    taskHead,           \* head as read by the task's getBufferedSamples()
    buffered,           \* local of the start check
    available,          \* local of the read path
    toRead,
    underrunCount,      \* function-static counter
    chunkStale,         \* playbackChunk holds a sample that was discarded
    \* devices
    spk,                \* last command to I2S_NUM_1: "zeroed" or "audio"
    mic,                \* last command to I2S_NUM_0: "started", "zeroed", "restarted"
    \* main context
    pcM,
    count,              \* queueAudioData: requested samples
    freeSpace,
    toWrite,
    written,            \* loop index i
    headAtCall,         \* cursors when queueAudioData obtained the mutex
    tailAtCall,
    \* voice_client.cpp
    currentVoiceState,
    wsConnected,
    sendCalledBin,      \* sendVoiceAudio: webSocket.sendBIN was called
    sendResult,         \* sendVoiceAudio: value returned
    emptyAtCall,        \* clearAudioBuffer was entered with occupancy 0
    \* bookkeeping
    liveSlots,
    discarded,          \* slots whose samples the last clearAudioBuffer discarded
    startFrames,        \* voice.start frames sent on the current connection
    sessionLog,         \* what the last event handler did (kept by SessionSpec)
    \* audio.cpp, volume control
    currentVolume,
    softwareGain,
    \* the last call of the volume, gain and voice-activity functions, with
    \* its arguments and its result
    dspCall,
    \* voice_client.cpp:18: whether an audio callback is registered
    audioCallback,
    \* voice_client.cpp:423-424: the voice.silence frames sent
    silenceFrames,
    \* the holdoff timer of the capture loop that calls sendVoiceSilence
    holdoff,
    \* voice_client.cpp:348-362: the server the socket was begun with and
    \* whether it was begun with beginSSL
    transport,
    \* audio.cpp:26, 163-173: whether ps_malloc gave initRingBuffer a buffer
    audioRingBuffer,
    \* the samples accepted and dequeued, by number (kept by FifoSpec)
    fifo,
    \* how the buffer was when finishAudioStream was last called (kept by
    \* TurnSpec)
    finishNote,
    \* main.cpp:61-73: the stand-alone recorder
    recorder

extraVars == <<audioRingBuffer, fifo, finishNote, recorder>>
dspVars == <<currentVolume, softwareGain, dspCall>>
clientVars == <<audioCallback, silenceFrames, holdoff, transport>>
outside == <<startFrames, sessionLog, dspVars, clientVars>>
engineVars == <<ringBufferHead, ringBufferTail, bufferPlaying, streamFinished, bufferMutex>>
taskVars == <<pcC, taskHead, buffered, available, toRead, underrunCount, chunkStale>>
queueVars == <<count, freeSpace, toWrite, written, headAtCall, tailAtCall>>
sessionVars == <<currentVoiceState, wsConnected>>
sendVars == <<sendCalledBin, sendResult>>
vars == <<engineVars, taskVars, queueVars, sessionVars, sendVars, emptyAtCall, pcM, spk, mic,
          liveSlots, discarded, extraVars, outside>>

\* --------------------------------------------------------------- helpers
Min(a, b) == IF a < b THEN a ELSE b

\* getBufferedSamples() on a pair of cursor readings
Occupancy(head, tail) ==
    IF head >= tail THEN head - tail ELSE AUDIO_RING_BUFFER_SIZE - tail + head

getBufferedSamples == Occupancy(ringBufferHead, ringBufferTail)

\* A free space that does not keep the reserved slot.
getBufferFreeSpace_NoReserve == AUDIO_RING_BUFFER_SIZE - getBufferedSamples

\* audio.cpp:421-423
isBufferedAudioPlaying == bufferPlaying \/ getBufferedSamples > 0

\* audio.cpp:52-54
getBufferFreeSpace == AUDIO_RING_BUFFER_SIZE - getBufferedSamples - 1

\* The slots a copy of n samples starting at tail reads.
SlotsFrom(tail, n) == {(tail + k) % AUDIO_RING_BUFFER_SIZE : k \in 0 .. (n - 1)}

\* The log of a behaviour that keeps none, and the log before any event.
NoLog == [frame |-> "untracked", fieldOk |-> TRUE, callbacks |-> {}, notice |-> <<>>, tour |-> 0]
\* The count of voice.silence frames of a behaviour that keeps none, and the
\* count before any frame.
NoFrames == [tracked |-> FALSE, sent |-> 0]
ZeroFrames == [tracked |-> TRUE, sent |-> 0]
EmptyLog == [frame |-> "none", fieldOk |-> TRUE, callbacks |-> {}, notice |-> <<>>, tour |-> 0]

\* The sample numbers of a behaviour that keeps none, and before any sample:
\* next is the number of samples accepted so far, slot the number of the
\* sample each ring slot holds (0: never written), played the numbers of the
\* samples dequeued for the output device, in order.
NoFifo == [tracked |-> FALSE, next |-> 0,
           slot |-> [i \in 0 .. (AUDIO_RING_BUFFER_SIZE - 1) |-> 0], played |-> <<>>]
ZeroFifo == [tracked |-> TRUE, next |-> 0,
             slot |-> [i \in 0 .. (AUDIO_RING_BUFFER_SIZE - 1) |-> 0], played |-> <<>>]

\* The note of a behaviour that keeps none, and before any finishAudioStream:
\* idleEmpty says that the last finishAudioStream was called with the buffer
\* empty and the scheduler not playing.
NoNote == [tracked |-> FALSE, idleEmpty |-> FALSE]
ZeroNote == [tracked |-> TRUE, idleEmpty |-> FALSE]

\* main.cpp:64-73: the recorder's states
STATE_IDLE == "STATE_IDLE"
STATE_RECORDING == "STATE_RECORDING"
STATE_PLAYING == "STATE_PLAYING"

\* main.cpp:63, 72-74: the recorder after setup(); quiet counts the loop
\* iterations since lastVoiceTime, played is the length of the last playback
RecorderIdle == [state |-> STATE_IDLE, lastState |-> STATE_IDLE, recordingLength |-> 0,
                 quiet |-> 0, played |-> 0]

\* ------------------------------------------------------------------ Init
\* The state after setupAudio() (initRingBuffer, setupAmplifier zeroes the DMA
\* buffer), startAudioPlaybackTask() and setupVoiceClient().
ProgramInit ==
    /\ ringBufferHead = 0
    /\ ringBufferTail = 0
    /\ bufferPlaying = FALSE
    /\ streamFinished = FALSE
    /\ bufferMutex = "free"
    /\ pcC = "top"
    /\ taskHead = 0
    /\ buffered = 0
    /\ available = 0
    /\ toRead = 0
    /\ underrunCount = 0
    /\ chunkStale = FALSE
    /\ spk = "zeroed"
    /\ mic = "started"
    /\ pcM = "idle"
    /\ count = 0
    /\ freeSpace = 0
    /\ toWrite = 0
    /\ written = 0
    /\ headAtCall = 0
    /\ tailAtCall = 0
    /\ currentVoiceState = VOICE_DISCONNECTED
    /\ wsConnected = FALSE
    /\ sendCalledBin = FALSE
    /\ sendResult = FALSE
    /\ emptyAtCall = FALSE
    /\ liveSlots = {}
    /\ discarded = {}
    /\ startFrames = <<>>
    /\ currentVolume = DEFAULT_VOLUME
    /\ softwareGain = DEFAULT_GAIN
    /\ dspCall = [fn |-> "none"]
    /\ audioCallback = FALSE
    /\ transport = [begun |-> FALSE, server |-> <<>>, ssl |-> FALSE]
    /\ holdoff = [now |-> 0, lastVoice |-> 0, run |-> 0, notified |-> FALSE, sentAtVoice |-> 0]
    /\ recorder = RecorderIdle

\* initRingBuffer obtained its buffer, and no sample numbers and no note of
\* finishAudioStream are kept.
Allocated ==
    /\ audioRingBuffer = TRUE
    /\ fifo = NoFifo
    /\ finishNote = NoNote

\* The full model keeps no log of the session's events.
Init ==
    /\ ProgramInit
    /\ sessionLog = NoLog
    /\ silenceFrames = NoFrames
    /\ Allocated

\* ------------------------------------------------------- playback task
\* audioPlaybackTask, one loop iteration at a time (the take that times out
\* is TaskTakeTimeout, a step of LockTimeout).  bufferReady is TRUE from
\* Init on (initRingBuffer has run).

\* The start condition of the not-playing branch (audio.cpp:88-93).
ShouldStart(b, finished) ==
    \/ (b >= AUDIO_START_THRESHOLD /\ ~finished)
    \/ (finished /\ b > 0)

\* A timeout test that lets one more underrun pass.
UnderrunTimedOut_OneLate(c) == c > UNDERRUN_LIMIT + 1

\* audio.cpp:122
UnderrunTimedOut(c) == c > UNDERRUN_LIMIT

\* A dequeue that takes everything the task saw in the buffer.
ChunkSize_Whole(av) == av

\* audio.cpp:137
ChunkSize(av) == Min(av, AUDIO_PLAYBACK_CHUNK)

mainVars == <<queueVars, sessionVars, sendVars, emptyAtCall, pcM, mic>>

\* A task loop that only runs while the channel is connected.
TaskTop_WhenConnected ==
    /\ pcC = "top"
    /\ wsConnected
    /\ pcC' = IF bufferPlaying THEN "av_head" ELSE "chk_head"
    /\ UNCHANGED <<engineVars, taskHead, buffered, available, toRead, underrunCount,
                   chunkStale, mainVars, spk, liveSlots, discarded, extraVars, outside>>

\* audio.cpp:85: if (!bufferPlaying)
TaskTop ==
    /\ pcC = "top"
    /\ pcC' = IF bufferPlaying THEN "av_head" ELSE "chk_head"
    /\ UNCHANGED <<engineVars, taskHead, buffered, available, toRead, underrunCount,
                   chunkStale, mainVars, spk, liveSlots, discarded, extraVars, outside>>

\* audio.cpp:87 -> 40: size_t head = ringBufferHead
TaskCheckHead ==
    /\ pcC = "chk_head"
    /\ taskHead' = ringBufferHead
    /\ pcC' = "chk_tail"
    /\ UNCHANGED <<engineVars, buffered, available, toRead, underrunCount,
                   chunkStale, mainVars, spk, liveSlots, discarded, extraVars, outside>>

\* audio.cpp:87 -> 41-46: size_t tail = ringBufferTail; buffered = ...
TaskCheckTail ==
    /\ pcC = "chk_tail"
    /\ buffered' = Occupancy(taskHead, ringBufferTail)
    /\ taskHead' = 0
    /\ pcC' = "chk_sf"
    /\ UNCHANGED <<engineVars, available, toRead, underrunCount,
                   chunkStale, mainVars, spk, liveSlots, discarded, extraVars, outside>>

\* audio.cpp:88-97: the two conditions read streamFinished; no start means
\* vTaskDelay(10); continue
TaskCheckStart ==
    /\ pcC = "chk_sf"
    /\ pcC' = IF ShouldStart(buffered, streamFinished) THEN "set_play" ELSE "top"
    /\ buffered' = 0
    /\ UNCHANGED <<engineVars, taskHead, available, toRead, underrunCount,
                   chunkStale, mainVars, spk, liveSlots, discarded, extraVars, outside>>

\* audio.cpp:90 / 93: bufferPlaying = true
TaskSetPlaying ==
    /\ pcC = "set_play"
    /\ bufferPlaying' = TRUE
    /\ pcC' = "av_head"
    /\ UNCHANGED <<ringBufferHead, ringBufferTail, streamFinished, bufferMutex,
                   taskHead, buffered, available, toRead, underrunCount,
                   chunkStale, mainVars, spk, liveSlots, discarded, extraVars, outside>>

\* audio.cpp:102 -> 40
TaskAvailHead ==
    /\ pcC = "av_head"
    /\ taskHead' = ringBufferHead
    /\ pcC' = "av_tail"
    /\ UNCHANGED <<engineVars, buffered, available, toRead, underrunCount,
                   chunkStale, mainVars, spk, liveSlots, discarded, extraVars, outside>>

\* audio.cpp:102 -> 41-46, 103, 131-137: available = getBufferedSamples();
\* with data: underrunCount = 0, toRead = min(available, CHUNK)
TaskAvailTail ==
    /\ pcC = "av_tail"
    /\ LET av == Occupancy(taskHead, ringBufferTail) IN
        /\ available' = av
        /\ IF av = 0
             THEN /\ pcC' = "empty"
                  /\ UNCHANGED <<underrunCount, toRead>>
             ELSE /\ pcC' = "take"
                  /\ underrunCount' = 0
                  /\ toRead' = ChunkSize(av)
    /\ taskHead' = 0
    /\ UNCHANGED <<engineVars, buffered, chunkStale, mainVars, spk, liveSlots, discarded, extraVars, outside>>

\* audio.cpp:104-111: available == 0 and streamFinished: normal completion
TaskComplete ==
    /\ pcC = "empty"
    /\ streamFinished
    /\ bufferPlaying' = FALSE
    /\ streamFinished' = FALSE
    /\ underrunCount' = 0
    /\ spk' = "zeroed"
    /\ available' = 0
    /\ pcC' = "top"
    /\ UNCHANGED <<ringBufferHead, ringBufferTail, bufferMutex, taskHead, buffered,
                   toRead, chunkStale, mainVars, liveSlots, discarded, extraVars, outside>>

\* audio.cpp:112-119: available == 0 and not finished: underrunCount++,
\* vTaskDelay(50)
TaskUnderrun ==
    /\ pcC = "empty"
    /\ ~streamFinished
    /\ underrunCount' = underrunCount + 1
    /\ available' = 0
    /\ pcC' = "underrun_wait"
    /\ UNCHANGED <<engineVars, taskHead, buffered, toRead, chunkStale, mainVars,
                   spk, liveSlots, discarded, extraVars, outside>>

\* audio.cpp:121-130: after the delay, the timeout check; then continue
TaskUnderrunCheck ==
    /\ pcC = "underrun_wait"
    /\ IF UnderrunTimedOut(underrunCount)
         THEN /\ bufferPlaying' = FALSE
              /\ streamFinished' = FALSE
              /\ underrunCount' = 0
              /\ spk' = "zeroed"
         ELSE UNCHANGED <<bufferPlaying, streamFinished, underrunCount, spk>>
    /\ pcC' = "top"
    /\ UNCHANGED <<ringBufferHead, ringBufferTail, bufferMutex, taskHead, buffered,
                   available, toRead, chunkStale, mainVars, liveSlots, discarded, extraVars, outside>>

\* audio.cpp:139: xSemaphoreTake(bufferMutex, 10 ms) == pdTRUE
TaskTake ==
    /\ pcC = "take"
    /\ bufferMutex = "free"
    /\ bufferMutex' = "task"
    /\ pcC' = "copy"
    /\ UNCHANGED <<ringBufferHead, ringBufferTail, bufferPlaying, streamFinished,
                   taskHead, buffered, available, toRead, underrunCount,
                   chunkStale, mainVars, spk, liveSlots, discarded, extraVars, outside>>

\* audio.cpp:145-148: the take timed out: vTaskDelay(1); continue
TaskTakeTimeout ==
    /\ pcC = "take"
    /\ bufferMutex = "main"
    /\ pcC' = "top"
    /\ available' = 0
    /\ toRead' = 0
    /\ UNCHANGED <<engineVars, taskHead, buffered, underrunCount,
                   chunkStale, mainVars, spk, liveSlots, discarded, extraVars, outside>>

\* audio.cpp:141: the samples a copy of n samples starting at tail puts into
\* playbackChunk, by number
ChunkFrom(tail, n) == [k \in 1 .. n |-> fifo.slot[(tail + k - 1) % AUDIO_RING_BUFFER_SIZE]]

\* audio.cpp:140-143: copy toRead samples, advancing the tail
TaskCopy ==
    /\ pcC = "copy"
    /\ ringBufferTail' = (ringBufferTail + toRead) % AUDIO_RING_BUFFER_SIZE
    /\ chunkStale' = (SlotsFrom(ringBufferTail, toRead) \cap discarded # {})
    /\ liveSlots' = liveSlots \ SlotsFrom(ringBufferTail, toRead)
    /\ discarded' = discarded \ SlotsFrom(ringBufferTail, toRead)
    /\ fifo' = IF fifo.tracked
                   THEN [fifo EXCEPT !.played = @ \o ChunkFrom(ringBufferTail, toRead)]
                   ELSE fifo
    /\ UNCHANGED <<outside, audioRingBuffer, finishNote, recorder>>
    /\ pcC' = "give"
    /\ UNCHANGED <<ringBufferHead, bufferPlaying, streamFinished, bufferMutex,
                   taskHead, buffered, available, toRead, underrunCount,
                   mainVars, spk>>

\* A task that goes on to the hardware write with the mutex still held.
TaskGive_KeepsLock ==
    /\ pcC = "give"
    /\ pcC' = "write"
    /\ UNCHANGED <<engineVars, taskHead, buffered, available, toRead, underrunCount,
                   chunkStale, mainVars, spk, liveSlots, discarded, extraVars, outside>>

\* audio.cpp:144: xSemaphoreGive
TaskGive ==
    /\ pcC = "give"
    /\ bufferMutex' = "free"
    /\ pcC' = "write"
    /\ UNCHANGED <<ringBufferHead, ringBufferTail, bufferPlaying, streamFinished,
                   taskHead, buffered, available, toRead, underrunCount,
                   chunkStale, mainVars, spk, liveSlots, discarded, extraVars, outside>>

\* audio.cpp:152-155: applyVolume, i2s_write (blocks until the hardware took
\* the chunk)
TaskWrite ==
    /\ pcC = "write"
    /\ spk' = "audio"
    /\ available' = 0
    /\ toRead' = 0
    /\ chunkStale' = FALSE
    /\ pcC' = "top"
    /\ UNCHANGED <<engineVars, taskHead, buffered, underrunCount, mainVars, liveSlots, discarded, extraVars, outside>>

audioPlaybackTask ==
    \/ TaskTop
    \/ TaskCheckHead
    \/ TaskCheckTail
    \/ TaskCheckStart
    \/ TaskSetPlaying
    \/ TaskAvailHead
    \/ TaskAvailTail
    \/ TaskComplete
    \/ TaskUnderrun
    \/ TaskUnderrunCheck
    \/ TaskTake
    \/ TaskCopy
    \/ TaskGive
    \/ TaskWrite

\* --------------------------------------------------------- main context
taskLocals == <<pcC, taskHead, buffered, available, toRead, underrunCount, chunkStale>>

\* A produce that does not clamp the request to the free space.
AcceptedCount_NoClamp(c, free) == c

\* audio.cpp:367
AcceptedCount(c, free) == Min(c, free)

\* A head that leaves a slot out at every sample.
AdvanceHead_SkipsSlot(h) == (h + 2) % AUDIO_RING_BUFFER_SIZE

\* audio.cpp:375
AdvanceHead(h) == (h + 1) % AUDIO_RING_BUFFER_SIZE

\* A setVoiceState that never stores the new state.
setVoiceState_Stuck(newState) == UNCHANGED currentVoiceState

\* voice_client.cpp:31-39 (the state value; the observer call is Notified)
setVoiceState(newState) == currentVoiceState' = newState

\* A gate that is also open in Processing.
ForwardingGate_AlsoProcessing(state) == state # VOICE_DISCONNECTED

\* voice_client.cpp:401-403
ForwardingGate(state) == state \in {VOICE_IDLE, VOICE_LISTENING, VOICE_SPEAKING}

\* audio.cpp:355-359: queueAudioData(samples, n) is called (by the audio
\* callback that webSocketEvent invokes for a WStype_BIN frame,
\* voice_client.cpp:313-319, or by any other user of audio.h); the ring
\* buffer and the mutex exist from Init on
QueueCall(n) ==
    /\ pcM = "idle"
    /\ count' = n
    /\ pcM' = "q_take"
    /\ UNCHANGED <<engineVars, taskLocals, freeSpace, toWrite, written, headAtCall,
                   tailAtCall, sessionVars, sendVars, emptyAtCall, spk, mic, liveSlots, discarded, extraVars, outside>>

\* A produce that goes on to the mutex without looking at the buffer pointer.
NotInitialized_Unchecked == FALSE

\* audio.cpp:356: audioRingBuffer == nullptr (the mutex is always created)
NotInitialized == ~audioRingBuffer

\* audio.cpp:356-367: without a buffer the call returns 0; otherwise the
\* mutex is obtained and freeSpace and toWrite are computed
QueueTake ==
    /\ pcM = "q_take"
    /\ IF NotInitialized
           THEN /\ toWrite' = 0
                /\ pcM' = "q_fail"
                /\ UNCHANGED <<bufferMutex, freeSpace, written, headAtCall, tailAtCall>>
           ELSE /\ bufferMutex = "free"
                /\ bufferMutex' = "main"
                /\ freeSpace' = getBufferFreeSpace
                /\ toWrite' = AcceptedCount(count, getBufferFreeSpace)
                /\ written' = 0
                /\ headAtCall' = ringBufferHead
                /\ tailAtCall' = ringBufferTail
                /\ pcM' = "q_loop"
    /\ UNCHANGED <<ringBufferHead, ringBufferTail, bufferPlaying, streamFinished,
                   taskLocals, count, sessionVars, sendVars, emptyAtCall, spk, mic, liveSlots, discarded, extraVars, outside>>

\* A produce that goes on to its write loop although its take timed out.
QueueTakeTimeout_WritesAnyway ==
    /\ pcM = "q_take"
    /\ bufferMutex = "task"
    /\ freeSpace' = getBufferFreeSpace
    /\ toWrite' = AcceptedCount(count, getBufferFreeSpace)
    /\ written' = 0
    /\ headAtCall' = ringBufferHead
    /\ tailAtCall' = ringBufferTail
    /\ pcM' = "q_loop"
    /\ UNCHANGED <<engineVars, taskLocals, count, sessionVars, sendVars, emptyAtCall, spk, mic,
                   liveSlots, discarded, extraVars, outside>>

\* audio.cpp:356, 361-364: the take timed out (50 ms): return 0
QueueTakeTimeout ==
    /\ pcM = "q_take"
    /\ ~NotInitialized
    /\ bufferMutex = "task"
    /\ toWrite' = 0
    /\ pcM' = "q_fail"
    /\ UNCHANGED <<engineVars, taskLocals, count, freeSpace, written, headAtCall,
                   tailAtCall, sessionVars, sendVars, emptyAtCall, spk, mic, liveSlots, discarded, extraVars, outside>>

\* audio.cpp:373-376: one iteration of the write loop
QueueWrite ==
    /\ pcM = "q_loop"
    /\ written < toWrite
    /\ liveSlots' = liveSlots \cup {ringBufferHead}
    /\ discarded' = discarded \ {ringBufferHead}
    /\ fifo' = IF fifo.tracked
                   THEN [fifo EXCEPT !.next = @ + 1, !.slot[ringBufferHead] = fifo.next + 1]
                   ELSE fifo
    /\ UNCHANGED <<outside, audioRingBuffer, finishNote, recorder>>
    /\ ringBufferHead' = AdvanceHead(ringBufferHead)
    /\ written' = written + 1
    /\ UNCHANGED <<ringBufferTail, bufferPlaying, streamFinished, bufferMutex,
                   taskLocals, count, freeSpace, toWrite, headAtCall, tailAtCall,
                   sessionVars, sendVars, emptyAtCall, pcM, spk, mic>>

\* audio.cpp:378: xSemaphoreGive; the call is about to return toWrite
QueueGive ==
    /\ pcM = "q_loop"
    /\ written >= toWrite
    /\ bufferMutex' = "free"
    /\ pcM' = "q_ret"
    /\ UNCHANGED <<ringBufferHead, ringBufferTail, bufferPlaying, streamFinished,
                   taskLocals, queueVars, sessionVars, sendVars, emptyAtCall, spk, mic, liveSlots, discarded, extraVars, outside>>

\* audio.cpp:380 / 363: return to the main loop
QueueReturn ==
    /\ pcM \in {"q_ret", "q_fail"}
    /\ pcM' = "idle"
    /\ count' = 0
    /\ freeSpace' = 0
    /\ toWrite' = 0
    /\ written' = 0
    /\ headAtCall' = 0
    /\ tailAtCall' = 0
    /\ UNCHANGED <<engineVars, taskLocals, sessionVars, sendVars, emptyAtCall, spk, mic, liveSlots, discarded, extraVars, outside>>

queueAudioData == QueueTake \/ QueueWrite \/ QueueGive \/ QueueReturn

\* audio.cpp:408: the mutex is obtained (100 ms)
ClearTake ==
    /\ pcM = "clr_take"
    /\ bufferMutex = "free"
    /\ bufferMutex' = "main"
    /\ pcM' = "clr_head"
    /\ UNCHANGED <<ringBufferHead, ringBufferTail, bufferPlaying, streamFinished,
                   taskLocals, queueVars, sessionVars, sendVars, emptyAtCall, spk, mic, liveSlots, discarded, extraVars, outside>>

\* A clear that resets the cursors although its take timed out.
ClearTakeTimeout_ResetsAnyway ==
    /\ pcM = "clr_take"
    /\ bufferMutex = "task"
    /\ pcM' = "clr_head"
    /\ UNCHANGED <<engineVars, taskLocals, queueVars, sessionVars, sendVars, emptyAtCall, spk, mic,
                   liveSlots, discarded, extraVars, outside>>

\* audio.cpp:408, 414: the take timed out: the reset is skipped
ClearTakeTimeout ==
    /\ pcM = "clr_take"
    /\ bufferMutex = "task"
    /\ pcM' = "clr_zero"
    /\ UNCHANGED <<engineVars, taskLocals, queueVars, sessionVars, sendVars, emptyAtCall, spk, mic,
                   liveSlots, discarded, extraVars, outside>>

\* audio.cpp:409: ringBufferHead = 0; what was buffered is discarded
ClearHead ==
    /\ pcM = "clr_head"
    /\ ringBufferHead' = 0
    /\ liveSlots' = {}
    /\ discarded' = IF bufferPlaying THEN liveSlots ELSE {}
    /\ UNCHANGED <<outside, extraVars>>
    /\ pcM' = "clr_tail"
    /\ UNCHANGED <<ringBufferTail, bufferPlaying, streamFinished, bufferMutex,
                   taskLocals, queueVars, sessionVars, sendVars, emptyAtCall, spk, mic>>

\* audio.cpp:410
ClearTail ==
    /\ pcM = "clr_tail"
    /\ ringBufferTail' = 0
    /\ pcM' = "clr_playing"
    /\ UNCHANGED <<ringBufferHead, bufferPlaying, streamFinished, bufferMutex,
                   taskLocals, queueVars, sessionVars, sendVars, emptyAtCall, spk, mic, liveSlots, discarded, extraVars, outside>>

\* audio.cpp:411
ClearPlaying ==
    /\ pcM = "clr_playing"
    /\ bufferPlaying' = FALSE
    /\ pcM' = "clr_finished"
    /\ UNCHANGED <<ringBufferHead, ringBufferTail, streamFinished, bufferMutex,
                   taskLocals, queueVars, sessionVars, sendVars, emptyAtCall, spk, mic, liveSlots, discarded, extraVars, outside>>

\* audio.cpp:412
ClearFinished ==
    /\ pcM = "clr_finished"
    /\ streamFinished' = FALSE
    /\ pcM' = "clr_give"
    /\ UNCHANGED <<ringBufferHead, ringBufferTail, bufferPlaying, bufferMutex,
                   taskLocals, queueVars, sessionVars, sendVars, emptyAtCall, spk, mic, liveSlots, discarded, extraVars, outside>>

\* audio.cpp:413
ClearGive ==
    /\ pcM = "clr_give"
    /\ bufferMutex' = "free"
    /\ pcM' = "clr_zero"
    /\ UNCHANGED <<ringBufferHead, ringBufferTail, bufferPlaying, streamFinished,
                   taskLocals, queueVars, sessionVars, sendVars, emptyAtCall, spk, mic, liveSlots, discarded, extraVars, outside>>

\* audio.cpp:415-417: i2s_zero_dma_buffer on the speaker and the microphone;
\* clearAudioBuffer returns
ClearZero ==
    /\ pcM = "clr_zero"
    /\ spk' = "zeroed"
    /\ mic' = "zeroed"
    /\ pcM' = "int_mic"
    /\ UNCHANGED <<engineVars, taskLocals, queueVars, sessionVars, sendVars, emptyAtCall, liveSlots, discarded, extraVars, outside>>

clearAudioBuffer ==
    \/ ClearTake
    \/ ClearHead
    \/ ClearTail
    \/ ClearPlaying
    \/ ClearFinished
    \/ ClearGive
    \/ ClearZero

\* ------------------------------------------------------- voice session
audioState == <<engineVars, taskLocals, queueVars, spk, liveSlots, discarded, extraVars>>

\* voice_client.cpp:342-343: the device identifier (the MAC address without
\* its colons), as stored by setupVoiceClient
deviceId == "deviceId"

\* A frame that does not carry the device identifier.
sendVoiceStart_NoDeviceId ==
    startFrames' = Append(startFrames, [type |-> "voice.start", deviceId |-> ""])

\* voice_client.cpp:301-305: webSocket.sendTXT(startMsg)
sendVoiceStart ==
    startFrames' = Append(startFrames, [type |-> "voice.start", deviceId |-> deviceId])

\* The declared transitions of the voice state machine, as one tour from
\* Disconnected: <<state before, event, state after>>.
DeclaredTour ==
    << <<VOICE_DISCONNECTED, "connect", VOICE_IDLE>>,
       <<VOICE_IDLE, "voice.listening", VOICE_LISTENING>>,
       <<VOICE_LISTENING, "voice.error", VOICE_IDLE>>,
       <<VOICE_IDLE, "voice.error", VOICE_IDLE>>,
       <<VOICE_IDLE, "close", VOICE_DISCONNECTED>>,
       <<VOICE_DISCONNECTED, "connect", VOICE_IDLE>>,
       <<VOICE_IDLE, "voice.listening", VOICE_LISTENING>>,
       <<VOICE_LISTENING, "close", VOICE_DISCONNECTED>>,
       <<VOICE_DISCONNECTED, "connect", VOICE_IDLE>>,
       <<VOICE_IDLE, "voice.listening", VOICE_LISTENING>>,
       <<VOICE_LISTENING, "voice.processing", VOICE_PROCESSING>>,
       <<VOICE_PROCESSING, "voice.error", VOICE_IDLE>>,
       <<VOICE_IDLE, "voice.listening", VOICE_LISTENING>>,
       <<VOICE_LISTENING, "voice.processing", VOICE_PROCESSING>>,
       <<VOICE_PROCESSING, "close", VOICE_DISCONNECTED>>,
       <<VOICE_DISCONNECTED, "connect", VOICE_IDLE>>,
       <<VOICE_IDLE, "voice.listening", VOICE_LISTENING>>,
       <<VOICE_LISTENING, "voice.processing", VOICE_PROCESSING>>,
       <<VOICE_PROCESSING, "voice.response", VOICE_SPEAKING>>,
       <<VOICE_SPEAKING, "voice.done", VOICE_IDLE>>,
       <<VOICE_IDLE, "voice.listening", VOICE_LISTENING>>,
       <<VOICE_LISTENING, "voice.processing", VOICE_PROCESSING>>,
       <<VOICE_PROCESSING, "voice.response", VOICE_SPEAKING>>,
       <<VOICE_SPEAKING, "voice.interrupt", VOICE_LISTENING>>,
       <<VOICE_LISTENING, "voice.processing", VOICE_PROCESSING>>,
       <<VOICE_PROCESSING, "voice.response", VOICE_SPEAKING>>,
       <<VOICE_SPEAKING, "voice.error", VOICE_IDLE>>,
       <<VOICE_IDLE, "voice.listening", VOICE_LISTENING>>,
       <<VOICE_LISTENING, "voice.processing", VOICE_PROCESSING>>,
       <<VOICE_PROCESSING, "voice.response", VOICE_SPEAKING>>,
       <<VOICE_SPEAKING, "close", VOICE_DISCONNECTED>> >>

\* A setVoiceState that calls the observer whether or not the state changes.
Notified_Always(newState) == {"state"}

\* voice_client.cpp:32-37: setVoiceState calls stateCallback when the state
\* changes
Notified(newState) == IF currentVoiceState # newState THEN {"state"} ELSE {}

\* The log after an event handler that received `frame` (its required field
\* parsed or not), invoked the callbacks cbs and left the voice state `to`.
\* notice holds the calls of stateCallback, each with its argument and the
\* state getVoiceState() has during the call: setVoiceState assigns
\* currentVoiceState (voice_client.cpp:34) before it calls
\* stateCallback(newState) (35-37).
Logged(frame, ok, cbs, to) ==
    IF sessionLog.frame = "untracked"
        THEN sessionLog
        ELSE [frame |-> frame, fieldOk |-> ok, callbacks |-> cbs,
              notice |-> IF "state" \in cbs THEN <<[arg |-> to, seen |-> to]>> ELSE <<>>,
              tour |-> IF /\ sessionLog.tour < Len(DeclaredTour)
                          /\ DeclaredTour[sessionLog.tour + 1] = <<currentVoiceState, frame, to>>
                         THEN sessionLog.tour + 1
                         ELSE sessionLog.tour]

\* voice_client.cpp:296-307: WStype_CONNECTED (voice.start is sent)
WsConnected ==
    /\ pcM = "idle"
    /\ ~wsConnected
    /\ wsConnected' = TRUE
    /\ sendVoiceStart
    /\ setVoiceState(VOICE_IDLE)
    /\ sessionLog' = Logged("connect", TRUE, Notified(VOICE_IDLE), VOICE_IDLE)
    /\ UNCHANGED <<audioState, sendVars, emptyAtCall, pcM, mic, dspVars, clientVars>>

\* voice_client.cpp:290-294: WStype_DISCONNECTED
WsDisconnected ==
    /\ pcM = "idle"
    /\ wsConnected' = FALSE
    /\ startFrames' = <<>>
    /\ setVoiceState(VOICE_DISCONNECTED)
    /\ sessionLog' = Logged("close", TRUE, Notified(VOICE_DISCONNECTED), VOICE_DISCONNECTED)
    /\ UNCHANGED <<audioState, sendVars, emptyAtCall, pcM, mic, dspVars, clientVars>>

\* A disconnect that clears the connection flag and keeps the voice state.
disconnectVoice_KeepsState ==
    /\ pcM = "idle"
    /\ wsConnected' = FALSE
    /\ startFrames' = <<>>
    /\ sessionLog' = Logged("close", TRUE, {}, currentVoiceState)
    /\ UNCHANGED <<audioState, currentVoiceState, sendVars, emptyAtCall, pcM, mic, dspVars,
                   clientVars>>

\* voice_client.cpp:428-433
disconnectVoice ==
    /\ pcM = "idle"
    /\ wsConnected' = FALSE
    /\ startFrames' = <<>>
    /\ setVoiceState(VOICE_DISCONNECTED)
    /\ sessionLog' = Logged("close", TRUE, Notified(VOICE_DISCONNECTED), VOICE_DISCONNECTED)
    /\ UNCHANGED <<audioState, sendVars, emptyAtCall, pcM, mic, dspVars, clientVars>>

\* voice_client.cpp:58-61
MsgListening ==
    /\ pcM = "idle"
    /\ wsConnected
    /\ setVoiceState(VOICE_LISTENING)
    /\ sessionLog' = Logged("voice.listening", TRUE, Notified(VOICE_LISTENING), VOICE_LISTENING)
    /\ UNCHANGED <<audioState, wsConnected, sendVars, emptyAtCall, pcM, mic, startFrames, dspVars, clientVars>>

\* A handler that also marks the stream finished.
MsgProcessing_FinishesStream ==
    /\ pcM = "idle"
    /\ wsConnected
    /\ setVoiceState(VOICE_PROCESSING)
    /\ streamFinished' = TRUE
    /\ sessionLog' = Logged("voice.processing", TRUE, Notified(VOICE_PROCESSING), VOICE_PROCESSING)
    /\ UNCHANGED <<ringBufferHead, ringBufferTail, bufferPlaying, bufferMutex, taskLocals,
                   queueVars, spk, liveSlots, discarded, extraVars, wsConnected, sendVars,
                   emptyAtCall, pcM, mic, startFrames, dspVars, clientVars>>

\* voice_client.cpp:74-77
MsgProcessing ==
    /\ pcM = "idle"
    /\ wsConnected
    /\ setVoiceState(VOICE_PROCESSING)
    /\ sessionLog' = Logged("voice.processing", TRUE, Notified(VOICE_PROCESSING), VOICE_PROCESSING)
    /\ UNCHANGED <<audioState, wsConnected, sendVars, emptyAtCall, pcM, mic, startFrames, dspVars, clientVars>>

\* voice_client.cpp:78-87: the text is only printed when it parses (ok);
\* setVoiceState(VOICE_SPEAKING) follows either way
MsgResponse ==
    /\ pcM = "idle"
    /\ wsConnected
    /\ setVoiceState(VOICE_SPEAKING)
    /\ \E ok \in BOOLEAN :
        sessionLog' = Logged("voice.response", ok, Notified(VOICE_SPEAKING), VOICE_SPEAKING)
    /\ UNCHANGED <<audioState, wsConnected, sendVars, emptyAtCall, pcM, mic, startFrames, dspVars, clientVars>>

\* An error handler that reports the error and keeps the state.
MsgError_KeepsState ==
    /\ pcM = "idle"
    /\ wsConnected
    /\ \E ok \in BOOLEAN :
        sessionLog' = Logged("voice.error", ok, {}, currentVoiceState)
    /\ UNCHANGED <<audioState, sessionVars, sendVars, emptyAtCall, pcM, mic, startFrames, dspVars, clientVars>>

\* voice_client.cpp:101-110: the error text is only printed when it parses
\* (ok); setVoiceState(VOICE_IDLE) follows either way
MsgError ==
    /\ pcM = "idle"
    /\ wsConnected
    /\ setVoiceState(VOICE_IDLE)
    /\ \E ok \in BOOLEAN :
        sessionLog' = Logged("voice.error", ok, Notified(VOICE_IDLE), VOICE_IDLE)
    /\ UNCHANGED <<audioState, wsConnected, sendVars, emptyAtCall, pcM, mic, startFrames, dspVars, clientVars>>

\* voice_client.cpp:50-55: the type cannot be extracted: return
MsgUnparsed ==
    /\ pcM = "idle"
    /\ wsConnected
    /\ sessionLog' = Logged("unparsed", FALSE, {}, currentVoiceState)
    /\ UNCHANGED <<audioState, sessionVars, sendVars, emptyAtCall, pcM, mic, startFrames, dspVars, clientVars>>

\* A handler that treats an unmatched type as an error report.
MsgUnknown_ToIdle ==
    /\ pcM = "idle"
    /\ wsConnected
    /\ setVoiceState(VOICE_IDLE)
    /\ sessionLog' = Logged("unknown", TRUE, Notified(VOICE_IDLE), VOICE_IDLE)
    /\ UNCHANGED <<audioState, wsConnected, sendVars, emptyAtCall, pcM, mic, startFrames, dspVars, clientVars>>

\* voice_client.cpp:58-114: a type that matches no branch
MsgUnknown ==
    /\ pcM = "idle"
    /\ wsConnected
    /\ sessionLog' = Logged("unknown", TRUE, {}, currentVoiceState)
    /\ UNCHANGED <<audioState, sessionVars, sendVars, emptyAtCall, pcM, mic, startFrames, dspVars, clientVars>>

\* voice_client.cpp:62-73: voice.transcription; transcriptCallback is called
\* when the text parses
MsgTranscription ==
    /\ pcM = "idle"
    /\ wsConnected
    /\ \E ok \in BOOLEAN :
        sessionLog' = Logged("voice.transcription", ok,
                             IF ok THEN {"transcript"} ELSE {}, currentVoiceState)
    /\ UNCHANGED <<audioState, sessionVars, sendVars, emptyAtCall, pcM, mic, startFrames, dspVars, clientVars>>

\* voice_client.cpp:111-114: iot.request is handed to handleIoTRequest, which
\* touches none of the state modelled here
MsgIotRequest ==
    /\ pcM = "idle"
    /\ wsConnected
    /\ sessionLog' = Logged("iot.request", TRUE, {}, currentVoiceState)
    /\ UNCHANGED <<audioState, sessionVars, sendVars, emptyAtCall, pcM, mic, startFrames, dspVars, clientVars>>

\* audio.cpp:402-405
finishAudioStream == streamFinished' = TRUE

\* audio.cpp:476-486
restartMicrophone == mic' = "restarted"

\* voice_client.cpp:88-90: voice.done, finishAudioStream()
MsgDone ==
    /\ pcM = "idle"
    /\ wsConnected
    /\ finishAudioStream
    /\ pcM' = "done_mic"
    /\ finishNote' = IF finishNote.tracked
                         THEN [finishNote EXCEPT
                                  !.idleEmpty = (getBufferedSamples = 0 /\ ~bufferPlaying
                                                   /\ pcC # "set_play")]
                         ELSE finishNote
    /\ UNCHANGED <<ringBufferHead, ringBufferTail, bufferPlaying, bufferMutex,
                   taskLocals, queueVars, sessionVars, sendVars, emptyAtCall, spk, mic,
                   liveSlots, discarded, audioRingBuffer, fifo, recorder, outside>>

\* voice_client.cpp:91-92: restartMicrophone(); setVoiceState(VOICE_IDLE)
MsgDoneFinish ==
    /\ pcM = "done_mic"
    /\ restartMicrophone
    /\ setVoiceState(VOICE_IDLE)
    /\ pcM' = "idle"
    /\ sessionLog' = Logged("voice.done", TRUE, Notified(VOICE_IDLE), VOICE_IDLE)
    /\ UNCHANGED <<audioState, wsConnected, sendVars, emptyAtCall, startFrames, dspVars, clientVars>>

\* voice_client.cpp:94-97: voice.interrupt, clearAudioBuffer() is entered
MsgInterrupt ==
    /\ pcM = "idle"
    /\ wsConnected
    /\ pcM' = "clr_take"
    /\ emptyAtCall' = (getBufferedSamples = 0)
    /\ UNCHANGED <<audioState, sessionVars, sendVars, mic, outside>>

\* voice_client.cpp:98-99: restartMicrophone(); setVoiceState(VOICE_LISTENING)
MsgInterruptFinish ==
    /\ pcM = "int_mic"
    /\ restartMicrophone
    /\ setVoiceState(VOICE_LISTENING)
    /\ pcM' = "idle"
    /\ emptyAtCall' = FALSE
    /\ sessionLog' = Logged("voice.interrupt", TRUE, Notified(VOICE_LISTENING), VOICE_LISTENING)
    /\ UNCHANGED <<audioState, wsConnected, sendVars, startFrames, dspVars, clientVars>>

\* A sender that moves an idle session to Listening when it forwards audio.
sendVoiceAudio_StartsListening(ok) ==
    /\ pcM = "idle"
    /\ IF wsConnected /\ ForwardingGate(currentVoiceState)
         THEN /\ sendCalledBin' = TRUE
              /\ sendResult' = ok
              /\ setVoiceState(IF currentVoiceState = VOICE_IDLE THEN VOICE_LISTENING
                               ELSE currentVoiceState)
         ELSE /\ sendCalledBin' = FALSE
              /\ sendResult' = FALSE
              /\ UNCHANGED currentVoiceState
    /\ pcM' = "send_ret"
    /\ UNCHANGED <<audioState, wsConnected, emptyAtCall, mic, outside>>

\* voice_client.cpp:388-416; ok is what webSocket.sendBIN returns
sendVoiceAudio(ok) ==
    /\ pcM = "idle"
    /\ IF wsConnected /\ ForwardingGate(currentVoiceState)
         THEN /\ sendCalledBin' = TRUE
              /\ sendResult' = ok
         ELSE /\ sendCalledBin' = FALSE
              /\ sendResult' = FALSE
    /\ pcM' = "send_ret"
    /\ UNCHANGED <<audioState, sessionVars, emptyAtCall, mic, outside>>

\* the caller has the result
SendReturn ==
    /\ pcM = "send_ret"
    /\ pcM' = "idle"
    /\ sendCalledBin' = FALSE
    /\ sendResult' = FALSE
    /\ UNCHANGED <<audioState, sessionVars, emptyAtCall, mic, outside>>

\* A sender that sends the frame twice.
sendVoiceSilence_Twice ==
    silenceFrames' = IF wsConnected /\ silenceFrames.tracked
                         THEN [silenceFrames EXCEPT !.sent = @ + 2]
                         ELSE silenceFrames

\* voice_client.cpp:418-426: nothing is sent while not connected
sendVoiceSilence ==
    silenceFrames' = IF wsConnected /\ silenceFrames.tracked
                         THEN [silenceFrames EXCEPT !.sent = @ + 1]
                         ELSE silenceFrames

\* voice_client.h:59: sendVoiceSilence() is called
CallSendVoiceSilence ==
    /\ pcM = "idle"
    /\ sendVoiceSilence
    /\ UNCHANGED <<audioState, sessionVars, sendVars, emptyAtCall, pcM, mic, startFrames,
                   sessionLog, dspVars, audioCallback, holdoff, transport>>

\* The capture loop's holdoff timer, one VAD window per tick: while audio is
\* forwarded it tracks the silence since the last window with activity, and
\* once the silence exceeds VAD_HOLDOFF_MS it sends the silence notification,
\* once per silence.
vadTick(active) ==
    /\ pcM = "idle"
    /\ wsConnected
    /\ ForwardingGate(currentVoiceState)
    /\ holdoff.now < MaxClock
    /\ LET now == holdoff.now + 1
           expired == /\ ~active
                      /\ ~holdoff.notified
                      /\ now - holdoff.lastVoice > VAD_HOLDOFF_MS
       IN  /\ holdoff' = [now |-> now,
                          lastVoice |-> IF active THEN now ELSE holdoff.lastVoice,
                          run |-> IF active THEN holdoff.run + 1 ELSE 0,
                          notified |-> IF active THEN FALSE ELSE (holdoff.notified \/ expired),
                          sentAtVoice |-> IF active THEN silenceFrames.sent
                                          ELSE holdoff.sentAtVoice]
           /\ IF expired THEN sendVoiceSilence ELSE UNCHANGED silenceFrames
    /\ UNCHANGED <<audioState, sessionVars, sendVars, emptyAtCall, pcM, mic, startFrames,
                   sessionLog, dspVars, audioCallback, transport>>

\* voice_client.cpp:443-445: a callback (TRUE) or nullptr (FALSE) is registered
setVoiceAudioCallback(callback) ==
    /\ pcM = "idle"
    /\ audioCallback' = callback
    /\ UNCHANGED <<audioState, sessionVars, sendVars, emptyAtCall, pcM, mic, startFrames,
                   sessionLog, dspVars, silenceFrames, holdoff, transport>>

\* The registered audio callback: the frame goes to the ring buffer producer
\* (queueAudioData is called with its n samples).
audioArrived(n) ==
    /\ count' = n
    /\ pcM' = "q_take"

\* A handler that hands the frame over only while a response is expected.
WsBinary_OnlyWhenSpeaking(n) ==
    /\ pcM = "idle"
    /\ wsConnected
    /\ IF audioCallback /\ currentVoiceState = VOICE_SPEAKING
           THEN audioArrived(n)
           ELSE UNCHANGED <<count, pcM>>
    /\ sessionLog' = Logged("binary", TRUE,
                            IF audioCallback /\ currentVoiceState = VOICE_SPEAKING
                                THEN {"audio"} ELSE {},
                            currentVoiceState)
    /\ UNCHANGED <<engineVars, taskLocals, freeSpace, toWrite, written, headAtCall, tailAtCall,
                   sessionVars, sendVars, emptyAtCall, spk, mic, liveSlots, discarded, extraVars,
                   startFrames, dspVars, clientVars>>

\* voice_client.cpp:313-319: WStype_BIN with a payload of n samples
WsBinary(n) ==
    /\ pcM = "idle"
    /\ wsConnected
    /\ IF audioCallback
           THEN audioArrived(n)
           ELSE UNCHANGED <<count, pcM>>
    /\ sessionLog' = Logged("binary", TRUE, IF audioCallback THEN {"audio"} ELSE {},
                            currentVoiceState)
    /\ UNCHANGED <<engineVars, taskLocals, freeSpace, toWrite, written, headAtCall, tailAtCall,
                   sessionVars, sendVars, emptyAtCall, spk, mic, liveSlots, discarded, extraVars,
                   startFrames, dspVars, clientVars>>

handleServerMessage ==
    \/ MsgListening
    \/ MsgProcessing
    \/ MsgResponse
    \/ MsgError
    \/ MsgUnparsed
    \/ MsgUnknown
    \/ MsgTranscription
    \/ MsgIotRequest
    \/ MsgDone
    \/ MsgDoneFinish
    \/ MsgInterrupt
    \/ MsgInterruptFinish

webSocketEvent ==
    \/ WsConnected
    \/ WsDisconnected
    \/ handleServerMessage
    \/ \E n \in 1 .. MaxBurst : WsBinary(n)

MainContext ==
    \/ webSocketEvent
    \/ \E n \in 1 .. MaxBurst : QueueCall(n)
    \/ queueAudioData
    \/ clearAudioBuffer
    \/ disconnectVoice
    \/ \E ok \in BOOLEAN : sendVoiceAudio(ok)
    \/ SendReturn
    \/ CallSendVoiceSilence

\* The three xSemaphoreTake calls timing out (audio.cpp:139/145, 361, 408).
LockTimeout == TaskTakeTimeout \/ QueueTakeTimeout \/ ClearTakeTimeout

\* The steps of the two contexts in which every take obtains the mutex.
NextNoTimeout == MainContext \/ audioPlaybackTask

Next == NextNoTimeout \/ LockTimeout

Spec == Init /\ [][Next]_vars

\* The behaviours of Spec in which no take times out: the holder of the
\* mutex always gives it back within the waiter's timeout.
SpecNoTimeout == Init /\ [][NextNoTimeout]_vars

\* One turn running to its end: audio frames arrive until voice.done, nothing
\* is produced once the stream is marked finished, no interrupt arrives and
\* no take times out.
QueueCallInTurn(n) ==
    /\ ~streamFinished
    /\ QueueCall(n)

DrainNext ==
    \/ WsConnected
    \/ MsgResponse
    \/ \E n \in 1 .. MaxBurst : QueueCallInTurn(n)
    \/ queueAudioData
    \/ MsgDone
    \/ MsgDoneFinish
    \/ audioPlaybackTask

\* The playback task is a FreeRTOS task that is always scheduled again after
\* its delays, and a call made by the main context runs to its return.
FairDrainSpec ==
    /\ Init
    /\ [][DrainNext]_vars
    /\ WF_vars(audioPlaybackTask)
    /\ WF_vars(queueAudioData)
    /\ WF_vars(MsgDoneFinish)

\* The ring buffer as a queue: every sample queueAudioData accepts gets the
\* next number, and the numbers of the samples the playback task dequeues are
\* kept in order.  No interrupt arrives.
FifoInit ==
    /\ ProgramInit
    /\ sessionLog = NoLog
    /\ silenceFrames = NoFrames
    /\ audioRingBuffer = TRUE
    /\ fifo = ZeroFifo
    /\ finishNote = NoNote

QueueCallNumbered(n) ==
    /\ fifo.next + n <= MaxSamples
    /\ QueueCall(n)

FifoNext ==
    \/ WsConnected
    \/ \E n \in 1 .. MaxBurst : QueueCallNumbered(n)
    \/ queueAudioData
    \/ MsgDone
    \/ MsgDoneFinish
    \/ audioPlaybackTask
    \/ TaskTakeTimeout
    \/ QueueTakeTimeout

FifoSpec == FifoInit /\ [][FifoNext]_vars

\* Turn after turn: the server reports listening, processing and the
\* response, audio frames arrive, voice.done ends the turn, and the playback
\* task runs.  A note is kept of how the buffer was at the last
\* finishAudioStream.  No interrupt arrives and no take times out.
TurnInit ==
    /\ ProgramInit
    /\ sessionLog = NoLog
    /\ silenceFrames = NoFrames
    /\ audioRingBuffer = TRUE
    /\ fifo = NoFifo
    /\ finishNote = ZeroNote

TurnNext ==
    \/ WsConnected
    \/ MsgListening
    \/ MsgProcessing
    \/ MsgResponse
    \/ \E n \in 1 .. MaxBurst : QueueCall(n)
    \/ queueAudioData
    \/ MsgDone
    \/ MsgDoneFinish
    \/ audioPlaybackTask

TurnSpec == TurnInit /\ [][TurnNext]_vars

\* ------------------------------------------------ the stand-alone recorder
notRecorder == <<engineVars, taskVars, queueVars, sessionVars, sendVars, emptyAtCall, pcM, spk,
                 mic, liveSlots, discarded, audioRingBuffer, fifo, finishNote, outside>>

\* main.cpp:192-254: play what was recorded and go back to IDLE with the
\* length reset; `played` records how many samples went to the speaker.
playRecording(r) ==
    IF r.recordingLength = 0
    THEN [r EXCEPT !.state = STATE_IDLE, !.lastState = STATE_PLAYING]
    ELSE [r EXCEPT !.played = r.recordingLength,
                   !.recordingLength = 0,
                   !.state = STATE_IDLE,
                   !.lastState = STATE_PLAYING]

\* main.cpp:419-428: a block is stored only if it leaves the length below
\* MAX_SAMPLES.
BlockFits(len, sampleCount) == len + sampleCount < MAX_SAMPLES

\* main.cpp:443: millis() - lastVoiceTime > SILENCE_DURATION with at least
\* the minimum recorded
SilenceStop(r) ==
    r.quiet > SILENCE_DURATION /\ r.recordingLength >= MIN_RECORDING_SAMPLES

\* main.cpp:391-410: one iteration in IDLE
loopIdle(r, voiced) ==
    LET shown == [r EXCEPT !.lastState = STATE_IDLE]
    IN  IF voiced
        THEN [shown EXCEPT !.state = STATE_RECORDING, !.recordingLength = 0, !.quiet = 0]
        ELSE shown

\* main.cpp:411-465: one iteration in RECORDING
loopRecording(r, voiced, sampleCount) ==
    LET shown == [r EXCEPT !.lastState = STATE_RECORDING]
        stored == IF BlockFits(shown.recordingLength, sampleCount)
                  THEN [shown EXCEPT !.recordingLength = @ + sampleCount]
                  ELSE shown
        heard == IF voiced THEN [stored EXCEPT !.quiet = 0] ELSE stored
        stopped == IF SilenceStop(heard)
                   THEN IF heard.recordingLength > 0
                        THEN playRecording([heard EXCEPT !.state = STATE_PLAYING])
                        ELSE [heard EXCEPT !.state = STATE_IDLE, !.lastState = STATE_RECORDING]
                   ELSE heard
    IN  IF stopped.recordingLength >= MAX_SAMPLES
        THEN playRecording([stopped EXCEPT !.state = STATE_PLAYING])
        ELSE stopped

\* main.cpp:380-479: one iteration of loop(). The microphone read at its
\* start blocks for one block of samples, so the time since the last voice
\* grows by one on every iteration.
loop(voiced, sampleCount) ==
    LET waited == [recorder EXCEPT !.quiet = Min(@ + 1, SILENCE_DURATION + 1)]
    IN  /\ recorder' = CASE recorder.state = STATE_IDLE -> loopIdle(waited, voiced)
                          [] recorder.state = STATE_RECORDING ->
                                 loopRecording(waited, voiced, sampleCount)
                          [] OTHER -> recorder
        /\ UNCHANGED notRecorder

RecorderNext == \E voiced \in BOOLEAN, sampleCount \in 1 .. BUFFER_SIZE : loop(voiced, sampleCount)

\* loop() is called again and again by the Arduino core.
RecorderSpec ==
    /\ Init
    /\ [][RecorderNext]_vars
    /\ WF_vars(RecorderNext)

\* Turns that end by voice.done, by voice.error or by the channel closing: the
\* server sends audio frames only while the session is in Speaking.
QueueCallSpeaking(n) ==
    /\ wsConnected
    /\ currentVoiceState = VOICE_SPEAKING
    /\ QueueCall(n)

AbortNext ==
    \/ WsConnected
    \/ MsgResponse
    \/ \E n \in 1 .. MaxBurst : QueueCallSpeaking(n)
    \/ queueAudioData
    \/ MsgDone
    \/ MsgDoneFinish
    \/ MsgError
    \/ WsDisconnected
    \/ audioPlaybackTask

\* The playback task is a FreeRTOS task that is always scheduled again after
\* its delays, and a call made by the main context runs to its return.
FairAbortSpec ==
    /\ Init
    /\ [][AbortNext]_vars
    /\ WF_vars(audioPlaybackTask)
    /\ WF_vars(queueAudioData)
    /\ WF_vars(MsgDoneFinish)

\* Startup with either outcome of the allocation in initRingBuffer
\* (audio.cpp:164-172), followed by the playback engine at work: frames are
\* produced, the stream is finished or interrupted, and the playback task
\* runs.
StartupInit ==
    /\ ProgramInit
    /\ sessionLog = NoLog
    /\ silenceFrames = NoFrames
    /\ audioRingBuffer \in BOOLEAN
    /\ fifo = NoFifo
    /\ finishNote = NoNote

StartupNext ==
    \/ WsConnected
    \/ \E n \in 1 .. MaxBurst : QueueCall(n)
    \/ queueAudioData
    \/ MsgDone
    \/ MsgDoneFinish
    \/ MsgInterrupt
    \/ clearAudioBuffer
    \/ MsgInterruptFinish
    \/ audioPlaybackTask
    \/ LockTimeout

StartupSpec == StartupInit /\ [][StartupNext]_vars

\* The voice session alone: the events the channel delivers and the calls
\* their handlers make, with a log of what each handler did.  The playback
\* task and the producer do not run.
SessionInit ==
    /\ ProgramInit
    /\ sessionLog = EmptyLog
    /\ silenceFrames = NoFrames
    /\ Allocated

SessionNext ==
    \/ webSocketEvent
    \/ \E n \in 1 .. MaxBurst : QueueCall(n)
    \/ queueAudioData
    \/ clearAudioBuffer
    \/ disconnectVoice
    \/ \E callback \in BOOLEAN : setVoiceAudioCallback(callback)

SessionSpec == SessionInit /\ [][SessionNext]_vars

\* String::startsWith (voice_client.cpp:350-353) on strings as sequences of
\* characters
startsWith(str, prefix) ==
    /\ Len(str) >= Len(prefix)
    /\ SubSeq(str, 1, Len(prefix)) = prefix

\* voice_client.cpp:349-354
isLocalNetwork(serverStr) ==
    \/ startsWith(serverStr, <<"1", "0", ".">>)
    \/ startsWith(serverStr, <<"1", "9", "2", ".", "1", "6", "8", ".">>)
    \/ startsWith(serverStr, <<"1", "7", "2", ".">>)
    \/ startsWith(serverStr, <<"1", "2", "7", ".">>)
    \/ serverStr = <<"l", "o", "c", "a", "l", "h", "o", "s", "t">>

\* The server arguments: private, loopback and public addresses, and host
\* names, some of which begin like a private address.
ServerArgs ==
    { <<"1", "0", ".", "0", ".", "0", ".", "5">>,
      <<"1", "9", "2", ".", "1", "6", "8", ".", "1", ".", "2", "0">>,
      <<"1", "7", "2", ".", "1", "6", ".", "0", ".", "1">>,
      <<"1", "7", "2", ".", "3", "1", ".", "2", "5", "5", ".", "1">>,
      <<"1", "2", "7", ".", "0", ".", "0", ".", "1">>,
      <<"l", "o", "c", "a", "l", "h", "o", "s", "t">>,
      <<"1", "7", "2", ".", "1", "5", ".", "0", ".", "1">>,
      <<"1", "7", "2", ".", "3", "2", ".", "0", ".", "1">>,
      <<"8", ".", "8", ".", "8", ".", "8">>,
      <<"1", "0", "0", ".", "1", ".", "2", ".", "3">>,
      <<"1", "9", "2", ".", "1", "6", "9", ".", "0", ".", "1">>,
      <<"1", ".", "2", ".", "3", ".", "4">>,
      <<"1", "0", ".", "e", "x", "a", "m", "p", "l", "e", ".", "c", "o", "m">>,
      <<"1", "9", "2", ".", "1", "6", "8", ".", "e", "v", "i", "l", ".", "i", "o">>,
      <<"1", "2", "7", ".", "e", "x", "a", "m", "p", "l", "e", ".", "o", "r", "g">>,
      <<"l", "o", "c", "a", "l", "h", "o", "s", "t", ".", "e", "v", "i", "l", ".", "c", "o", "m">>,
      <<"e", "x", "a", "m", "p", "l", "e", ".", "c", "o", "m">>,
      <<"1", "7", "2", ".", "2", "0", "0", ".", "9", ".", "9">>,
      <<"1", "2", "7", ".", "0", ".", "0", ".", "1", ".", "n", "i", "p", ".", "i", "o">> }

\* voice_client.cpp:338-374: begin (no TLS) for a local server, beginSSL
\* otherwise
setupVoiceClient(server) ==
    /\ pcM = "idle"
    /\ transport' = [begun |-> TRUE, server |-> server, ssl |-> ~isLocalNetwork(server)]
    /\ UNCHANGED <<audioState, sessionVars, sendVars, emptyAtCall, pcM, mic, startFrames,
                   sessionLog, dspVars, audioCallback, silenceFrames, holdoff>>

\* The client is set up for a server, the playback callback is registered and
\* the channel connects and closes.
TransportNext ==
    \/ \E server \in ServerArgs : setupVoiceClient(server)
    \/ WsConnected
    \/ WsDisconnected
    \/ MsgListening
    \/ MsgProcessing
    \/ MsgResponse
    \/ MsgError
    \/ \E callback \in BOOLEAN : setVoiceAudioCallback(callback)

TransportSpec == Init /\ [][TransportNext]_vars

\* The capture loop of a session: the channel connects and closes, the server
\* reports listening, processing or an error, and the holdoff timer ticks.
HoldoffInit ==
    /\ ProgramInit
    /\ sessionLog = NoLog
    /\ silenceFrames = ZeroFrames
    /\ Allocated

HoldoffNext ==
    \/ WsConnected
    \/ WsDisconnected
    \/ MsgListening
    \/ MsgProcessing
    \/ MsgError
    \/ \E active \in BOOLEAN : vadTick(active)

HoldoffSpec == HoldoffInit /\ [][HoldoffNext]_vars

\* ===================================================================
\* Volume, gain and voice activity detection (audio.cpp:59-68, 425-465)
\* ===================================================================
firmwareVars == <<engineVars, taskVars, queueVars, sessionVars, sendVars, emptyAtCall, pcM, spk,
                  mic, liveSlots, discarded, extraVars, startFrames, sessionLog, clientVars>>

Abs(x) == IF x < 0 THEN -x ELSE x

\* The arguments the setters are called with (uint8_t, uint16_t) and the
\* samples the gain stage is given (int16_t).
VolumeArgs == {0, 1, DEFAULT_VOLUME, VOLUME_MAX, VOLUME_MAX + 1, UINT8_MAX}
GainArgs == {0, GAIN_MIN - 1, GAIN_MIN, 250, GAIN_MAX, GAIN_MAX + 1, UINT16_MAX}
SampleArgs == {INT16_MIN, INT16_MIN + 1, -12345, -477, -1, 0, 1, 476, 477, 12345, INT16_MAX}

\* A volume clamp that lets every uint8_t through.
ClampVolume_None(volume) == volume

\* audio.cpp:451
ClampVolume(volume) == IF volume > VOLUME_MAX THEN VOLUME_MAX ELSE volume

\* audio.cpp:450-454
setVolume(volume) ==
    /\ currentVolume' = ClampVolume(volume)
    /\ dspCall' = [fn |-> "setVolume", arg |-> volume]
    /\ UNCHANGED <<firmwareVars, softwareGain>>

\* audio.cpp:461-462
ClampGain(gain) ==
    LET atLeast == IF gain < GAIN_MIN THEN GAIN_MIN ELSE gain
    IN  IF atLeast > GAIN_MAX THEN GAIN_MAX ELSE atLeast

\* audio.cpp:460-465
setGain(gain) ==
    /\ softwareGain' = ClampGain(gain)
    /\ dspCall' = [fn |-> "setGain", arg |-> gain]
    /\ UNCHANGED <<firmwareVars, currentVolume>>

\* audio.cpp:62: a * b does not fit an int32_t
MulOverflows(a, b) ==
    /\ a # 0
    /\ b # 0
    /\ IF (a < 0) = (b < 0)
           THEN Abs(a) > INT32_MAX \div Abs(b)
           ELSE Abs(a) - (IF INT32_MAX % Abs(b) = Abs(b) - 1 THEN 1 ELSE 0)
                    > INT32_MAX \div Abs(b)

\* audio.cpp:62: the integer division of C, which truncates toward zero
TruncDiv(a, b) == IF a >= 0 THEN a \div b ELSE -((-a) \div b)

\* A conversion to int16_t that keeps the low 16 bits instead of clamping.
Saturate_Wrap16(x) == ((x - INT16_MIN) % (2 * (INT16_MAX + 1))) + INT16_MIN

\* audio.cpp:64-65
Saturate(x) == IF x > INT16_MAX THEN INT16_MAX ELSE IF x < INT16_MIN THEN INT16_MIN ELSE x

\* audio.cpp:62: the values of `scaled`. The operands are promoted to int;
\* a product that does not fit is a signed overflow, whose result is
\* undefined: any int32_t.
Scaled(sample, volume, gain) ==
    LET p == sample * volume
    IN  IF MulOverflows(sample, volume) \/ MulOverflows(p, gain)
            THEN {-INT32_MAX - 1, INT16_MIN - 1, -1, 0, 1, INT16_MAX + 1, INT32_MAX}
            ELSE {TruncDiv(p * gain, VOLUME_GAIN_DIVISOR)}

\* audio.cpp:59-68, for one sample of the block
applyVolume(sample) ==
    /\ \E scaled \in Scaled(sample, currentVolume, softwareGain) :
           dspCall' = [fn |-> "applyVolume", sample |-> sample, volume |-> currentVolume,
                       gain |-> softwareGain,
                       overflow |-> (MulOverflows(sample, currentVolume)
                                       \/ MulOverflows(sample * currentVolume, softwareGain)),
                       out |-> Saturate(scaled)]
    /\ UNCHANGED <<firmwareVars, currentVolume, softwareGain>>

\* A window of samples, as a sequence of runs <<value, length>>.
RECURSIVE WindowCount(_)
WindowCount(w) == IF w = <<>> THEN 0 ELSE w[1][2] + WindowCount(Tail(w))

RECURSIVE SumSquares(_)
\* audio.cpp:429-433: the sum of the squares (an int64_t in the code; the
\* windows used here keep it below 2^30)
SumSquares(w) == IF w = <<>> THEN 0 ELSE w[1][1] * w[1][1] * w[1][2] + SumSquares(Tail(w))

\* The windows detectVoiceActivity is given: empty, silent, below, at and
\* just above the threshold for short and for long windows, and loud.
VadWindows ==
    { <<>>,
      << <<0, 1>> >>,
      << <<VAD_THRESHOLD, 1>> >>,
      << <<-VAD_THRESHOLD - 1, 1>> >>,
      << <<INT16_MIN, 1>> >>,
      << <<VAD_THRESHOLD, 1024>> >>,
      << <<100, 1>>, <<0, 2>>, <<1, 1>>, <<VAD_THRESHOLD, 1020>> >>,
      << <<100, 1>>, <<0, 2>>, <<-1, 1>>, <<VAD_THRESHOLD, 6706>> >>,
      << <<100, 1>>, <<0, 3>>, <<VAD_THRESHOLD, 6708>> >>,
      << <<100, 1>>, <<0, 2>>, <<1, 1>>, <<VAD_THRESHOLD, 6708>> >>,
      << <<100, 1>>, <<0, 2>>, <<2, 1>>, <<VAD_THRESHOLD, 6708>> >>,
      << <<100, 1>>, <<0, 2>>, <<1, 1>>, <<-VAD_THRESHOLD, 8188>> >>,
      << <<200, 8192>> >> }

RECURSIVE FloatUlp(_)
\* The spacing of the float values around n (24 significant bits).
FloatUlp(n) == IF n < 16777216 THEN 1 ELSE 2 * FloatUlp(n \div 2)

\* audio.cpp:435: (float)sum, rounded to the nearest float, ties to even
IntToFloat(n) ==
    LET u == FloatUlp(n)
        r == n % u
        base == n - r
    IN  IF 2 * r < u THEN base
        ELSE IF 2 * r > u THEN base + u
        ELSE IF (base \div u) % 2 = 0 THEN base ELSE base + u

\* audio.cpp:435, 447: sqrtf(a / count) > VAD_THRESHOLD for the float a.
\* sqrtf is monotone and correctly rounded and the square of the threshold
\* is a float, so the comparison holds exactly when the float quotient is
\* above threshold^2 = 2500. The floats around 2500 are 2^-12 apart and 2500
\* is the even neighbour, so the quotient rounds above it exactly when
\* a / count - 2500 > 2^-13, that is (a - 2500 * count) * 8192 > count.
RmsAboveThreshold(a, cnt) ==
    LET d == a - VAD_THRESHOLD * VAD_THRESHOLD * cnt
    IN  d > 0 /\ d > cnt \div 8192

\* audio.cpp:425-448 (maxRms and lastRmsLog only feed the Serial.printf)
detectVoiceActivity(w) ==
    /\ dspCall' = [fn |-> "detectVoiceActivity", window |-> w,
                   result |-> IF WindowCount(w) = 0 THEN FALSE
                              ELSE RmsAboveThreshold(IntToFloat(SumSquares(w)), WindowCount(w))]
    /\ UNCHANGED <<firmwareVars, currentVolume, softwareGain>>

DspNext ==
    \/ \E volume \in VolumeArgs : setVolume(volume)
    \/ \E gain \in GainArgs : setGain(gain)
    \/ \E sample \in SampleArgs : applyVolume(sample)
    \/ \E w \in VadWindows : detectVoiceActivity(w)

DspSpec == Init /\ [][DspNext]_vars

\* ===================================================================
\* Properties
\* ===================================================================

\* Free space by the cursors as they were when queueAudioData obtained the
\* mutex.
FreeAtCall == AUDIO_RING_BUFFER_SIZE - 1 - Occupancy(headAtCall, tailAtCall)

\* C1: the cursors stay inside the buffer, the occupancy (write - read) mod
\* capacity and the number of live samples are at most capacity - 1 in every
\* reachable state (every interleaving of produce, dequeue and interrupt), and
\* the count a produce call accepts is never larger than the free space the
\* buffer had when the call obtained the mutex (0 when it did not obtain it).
C1_RingBufferInvariant ==
    /\ ringBufferHead \in 0 .. (AUDIO_RING_BUFFER_SIZE - 1)
    /\ ringBufferTail \in 0 .. (AUDIO_RING_BUFFER_SIZE - 1)
    /\ getBufferedSamples <= AUDIO_RING_BUFFER_SIZE - 1
    /\ Cardinality(liveSlots) <= AUDIO_RING_BUFFER_SIZE - 1
    /\ (pcM \in {"q_loop", "q_ret"} => (written <= toWrite /\ toWrite <= FreeAtCall))
    /\ (pcM = "q_fail" => toWrite = 0)

\* A produce call on a full buffer returns with fewer samples than requested.
C1_Witness ==
    /\ pcM = "q_ret"
    /\ toWrite < count
    /\ getBufferedSamples = AUDIO_RING_BUFFER_SIZE - 1

\* C2: when queueAudioData holds the mutex, the accepted count is exactly
\* min(count, free space at that time); while it writes there is always room
\* for the next sample (it never has to wait for space); the head has advanced
\* by exactly the samples written so far, modulo the capacity, and the tail is
\* where it was; on return the head has advanced by exactly the accepted
\* count.
C2_ProduceAcceptsMin ==
    /\ (pcM = "q_loop" =>
            /\ toWrite = Min(count, FreeAtCall)
            /\ ringBufferHead = (headAtCall + written) % AUDIO_RING_BUFFER_SIZE
            /\ ringBufferTail = tailAtCall
            /\ (written < toWrite => getBufferFreeSpace > 0))
    /\ (pcM = "q_ret" =>
            /\ toWrite = Min(count, FreeAtCall)
            /\ written = toWrite
            /\ ringBufferHead = (headAtCall + toWrite) % AUDIO_RING_BUFFER_SIZE)

\* A produce call that accepted a part of its samples, dropped the rest, and
\* wrapped the head around the end of the buffer.
C2_Witness ==
    /\ pcM = "q_ret"
    /\ 0 < toWrite
    /\ toWrite < count
    /\ ringBufferHead < headAtCall

\* C3: when sendVoiceAudio returns, a binary frame was handed to the channel
\* only if the channel is connected and the voice state is Idle, Listening or
\* Speaking; in Processing and in Disconnected (and whenever the channel is
\* not connected) no frame was sent and the call returned false.
C3_ForwardingGate ==
    pcM = "send_ret" =>
        /\ (sendCalledBin =>
                wsConnected /\ currentVoiceState \in {VOICE_IDLE, VOICE_LISTENING, VOICE_SPEAKING})
        /\ (sendResult => sendCalledBin)
        /\ ((currentVoiceState \in {VOICE_PROCESSING, VOICE_DISCONNECTED} \/ ~wsConnected) =>
                (~sendCalledBin /\ ~sendResult))

\* sendVoiceAudio was called while connected in Processing and sent nothing.
C3_Witness ==
    /\ pcM = "send_ret"
    /\ wsConnected
    /\ currentVoiceState = VOICE_PROCESSING
    /\ ~sendCalledBin
    /\ ~sendResult

\* C10: the consecutive-underrun counter never exceeds UNDERRUN_LIMIT + 1 and
\* is at most UNDERRUN_LIMIT outside the wait; an underrun is counted only on
\* an empty reading, and that step neither dequeues nor writes to the output;
\* a reading with data resets the counter to 0; once the counter is above the
\* limit, the task's next step clears the playing and finished flags, resets
\* the counter and silences the output.
C10_UnderrunStep ==
    /\ (underrunCount' = underrunCount + 1 =>
            /\ pcC = "empty" /\ available = 0
            /\ pcC' = "underrun_wait"
            /\ UNCHANGED <<ringBufferTail, spk, bufferPlaying, streamFinished>>)
    /\ ((pcC = "empty" /\ pcC' # "empty" /\ ~streamFinished) =>
            (underrunCount' = underrunCount + 1 /\ UNCHANGED <<ringBufferTail, spk>>))
    /\ ((pcC = "av_tail" /\ pcC' = "take") => underrunCount' = 0)
    /\ ((pcC = "underrun_wait" /\ pcC' = "top" /\ underrunCount > UNDERRUN_LIMIT) =>
            (~bufferPlaying' /\ ~streamFinished' /\ underrunCount' = 0 /\ spk' = "zeroed"))
    /\ ((pcC = "underrun_wait" /\ pcC' = "top" /\ underrunCount <= UNDERRUN_LIMIT) =>
            UNCHANGED <<bufferPlaying, streamFinished, underrunCount, spk>>)

C10_UnderrunBounded ==
    /\ underrunCount \in 0 .. (UNDERRUN_LIMIT + 1)
    /\ (pcC # "underrun_wait" => underrunCount <= UNDERRUN_LIMIT)

C10_UnderrunTimeout == [][C10_UnderrunStep /\ C10_UnderrunBounded']_vars

\* The task has counted more than UNDERRUN_LIMIT underruns in a row while
\* playing and is about to abort.
C10_Witness ==
    /\ pcC = "underrun_wait"
    /\ bufferPlaying
    /\ underrunCount = UNDERRUN_LIMIT + 1

\* C4: when the voice.interrupt handler, entered in Speaking, returns, the
\* ring buffer is cleared (both cursors 0, occupancy 0, nothing live, the
\* stream-finished flag cleared, the scheduler not playing), the capture path
\* has been reset and the voice state is Listening.
C4_InterruptHardStops ==
    [][(pcM = "int_mic" /\ pcM' = "idle" /\ currentVoiceState = VOICE_SPEAKING) =>
            /\ ringBufferHead' = 0
            /\ ringBufferTail' = 0
            /\ getBufferedSamples' = 0
            /\ liveSlots' = {}
            /\ ~streamFinished'
            /\ ~bufferPlaying'
            /\ mic' = "restarted"
            /\ currentVoiceState' = VOICE_LISTENING]_vars

\* C5: when a clearAudioBuffer() that discarded samples of a playing buffer
\* has returned, the occupancy is 0, and no chunk the playback task dequeues
\* for the output device holds one of the discarded samples.
C5_InterruptDiscards ==
    /\ ~chunkStale
    /\ ((pcM = "int_mic" /\ discarded # {}) => getBufferedSamples = 0)

\* C6: the voice.done handler entered in Speaking moves the session to Idle
\* and resets the capture path only once the buffer has drained to 0.
C6_DoneWaitsForDrain ==
    [][(pcM = "done_mic" /\ pcM' = "idle" /\ currentVoiceState = VOICE_SPEAKING) =>
            (getBufferedSamples = 0 /\ ~bufferPlaying)]_vars

\* C7: once the stream is marked finished, the playback task eventually
\* completes the turn: the finished flag is cleared, the scheduler is not
\* playing and the buffer is empty.
C7_FinishCompletes ==
    streamFinished ~> (~streamFinished /\ ~bufferPlaying /\ getBufferedSamples = 0)

\* C8: a finishAudioStream() made when the stream is already marked finished
\* changes nothing (twice is as once), and a clearAudioBuffer() entered with
\* an empty buffer returns with the buffer empty (cursors 0, occupancy 0) and
\* the scheduler not playing.
C8_FinishTwice ==
    (pcM = "idle" /\ pcM' = "done_mic" /\ streamFinished) =>
        UNCHANGED <<engineVars, taskLocals, spk, liveSlots, discarded, extraVars, outside>>

C8_ClearWhenEmpty ==
    (pcM = "int_mic" /\ emptyAtCall) =>
        (getBufferedSamples = 0 /\ liveSlots = {} /\ ~bufferPlaying)

C8_Idempotence == [][C8_FinishTwice /\ C8_ClearWhenEmpty']_vars

\* C9: the playback task sets the playing flag only when the occupancy is at
\* least the start threshold, or the stream is marked finished and the
\* occupancy is not 0.
C9_StartThreshold ==
    [][(~bufferPlaying /\ bufferPlaying') =>
            \/ getBufferedSamples >= AUDIO_START_THRESHOLD
            \/ (streamFinished /\ getBufferedSamples > 0)]_vars

\* C11: when the channel closes (WStype_DISCONNECTED or disconnectVoice) the
\* voice state becomes Disconnected, the connection flag is cleared (no
\* microphone frame is forwarded any more) and a playback in progress is
\* stopped.
C11_CloseResets ==
    [][(wsConnected /\ ~wsConnected') =>
            /\ currentVoiceState' = VOICE_DISCONNECTED
            /\ ~bufferPlaying']_vars

\* C12: a step that connects the channel sends exactly one voice.start frame
\* and moves the session from Disconnected to Idle; no other step sends one;
\* so the frames sent on the current connection are always exactly one
\* voice.start carrying the device identifier (none while not connected).
C12_StartStep ==
    /\ ((~wsConnected /\ wsConnected') =>
            /\ Len(startFrames') = Len(startFrames) + 1
            /\ currentVoiceState = VOICE_DISCONNECTED
            /\ currentVoiceState' = VOICE_IDLE)
    /\ (Len(startFrames') > Len(startFrames) => (~wsConnected /\ wsConnected'))

C12_StartFrames ==
    startFrames = IF wsConnected
                    THEN <<[type |-> "voice.start", deviceId |-> deviceId]>>
                    ELSE <<>>

C12_VoiceStart == [][C12_StartStep /\ C12_StartFrames']_vars

\* The channel is connected, its voice.start has been sent and the session is
\* in Idle.
C12_Witness ==
    /\ wsConnected
    /\ Len(startFrames) = 1
    /\ startFrames[1].deviceId = deviceId
    /\ currentVoiceState = VOICE_IDLE

\* C13: the voice state changes only along a declared transition:
\* Disconnected to Idle, Idle to Listening and back, Listening to Processing,
\* Processing to Speaking, Speaking to Idle, Speaking to Listening, any state
\* to Idle (error) and any state to Disconnected.
C13_DeclaredOnly ==
    [][(currentVoiceState' # currentVoiceState) =>
            \/ currentVoiceState' = VOICE_DISCONNECTED
            \/ (currentVoiceState' = VOICE_IDLE)
            \/ (currentVoiceState = VOICE_IDLE /\ currentVoiceState' = VOICE_LISTENING)
            \/ (currentVoiceState = VOICE_LISTENING /\ currentVoiceState' = VOICE_PROCESSING)
            \/ (currentVoiceState = VOICE_PROCESSING /\ currentVoiceState' = VOICE_SPEAKING)
            \/ (currentVoiceState = VOICE_SPEAKING /\ currentVoiceState' = VOICE_LISTENING)]_vars

\* C14: every declared transition is reachable from Disconnected: each step
\* that advances the tour of declared transitions is a step of the event the
\* tour names, taken from the source state it names and ending in the target
\* state it names; the tour visits every declared transition in one behaviour.
C14_TourStep ==
    [][(sessionLog'.tour # sessionLog.tour) =>
            /\ sessionLog'.tour = sessionLog.tour + 1
            /\ DeclaredTour[sessionLog'.tour] =
                   <<currentVoiceState, sessionLog'.frame, currentVoiceState'>>]_vars

C14_Witness ==
    /\ sessionLog.tour = Len(DeclaredTour)
    /\ currentVoiceState = VOICE_DISCONNECTED
    /\ \A t \in { <<VOICE_DISCONNECTED, VOICE_IDLE>>, <<VOICE_IDLE, VOICE_LISTENING>>,
                  <<VOICE_LISTENING, VOICE_IDLE>>, <<VOICE_LISTENING, VOICE_PROCESSING>>,
                  <<VOICE_PROCESSING, VOICE_SPEAKING>>, <<VOICE_SPEAKING, VOICE_IDLE>>,
                  <<VOICE_SPEAKING, VOICE_LISTENING>>, <<VOICE_PROCESSING, VOICE_IDLE>>,
                  <<VOICE_IDLE, VOICE_DISCONNECTED>>, <<VOICE_LISTENING, VOICE_DISCONNECTED>>,
                  <<VOICE_PROCESSING, VOICE_DISCONNECTED>>,
                  <<VOICE_SPEAKING, VOICE_DISCONNECTED>> } :
           \E i \in 1..Len(DeclaredTour) :
               <<DeclaredTour[i][1], DeclaredTour[i][3]>> = t

\* C15: a text frame whose type cannot be extracted, or whose type matches no
\* handler, is discarded: the step that receives it leaves the voice state,
\* the connection flag and the ring buffer and playback state as they were,
\* and calls no observer.
C15_DiscardStep ==
    [][(sessionLog' # sessionLog /\ sessionLog'.frame \in {"unparsed", "unknown"}) =>
            /\ UNCHANGED <<sessionVars, audioState, sendVars, pcM, startFrames>>
            /\ sessionLog'.callbacks = {}]_vars

C15_Witness ==
    /\ sessionLog.frame \in {"unparsed", "unknown"}
    /\ pcM = "idle"
    /\ currentVoiceState = VOICE_SPEAKING
    /\ getBufferedSamples > 0

\* C16: a voice.response whose text does not parse, or a voice.error whose
\* error does not parse, leaves the voice state as it was.
C16_FailSafe ==
    [][(/\ sessionLog' # sessionLog
        /\ sessionLog'.frame \in {"voice.response", "voice.error"}
        /\ ~sessionLog'.fieldOk) => UNCHANGED currentVoiceState]_vars

\* C17: after a voice.error, received in any connected state, the session is
\* still connected and in Idle, and Idle accepts the voice.listening that
\* starts the next turn.
C17_ErrorRecovers ==
    (sessionLog.frame = "voice.error") =>
        /\ wsConnected
        /\ currentVoiceState = VOICE_IDLE
        /\ (pcM = "idle" => ENABLED MsgListening)

C17_Witness ==
    /\ sessionLog.frame = "voice.error"
    /\ sessionLog.tour = 27
    /\ DeclaredTour[27] = <<VOICE_SPEAKING, "voice.error", VOICE_IDLE>>
    /\ currentVoiceState = VOICE_IDLE
    /\ wsConnected

\* C18: for a 16-bit sample, a volume in [0,100] and a gain in [100,400] the
\* 32-bit product does not overflow and the output is the quotient
\* sample*volume*gain/10000 (truncated toward zero) saturated to
\* [-32768, 32767].
C18_GainStage ==
    (/\ dspCall.fn = "applyVolume"
     /\ dspCall.volume \in 0 .. VOLUME_MAX
     /\ dspCall.gain \in GAIN_MIN .. GAIN_MAX) =>
        /\ ~dspCall.overflow
        /\ dspCall.out \in INT16_MIN .. INT16_MAX
        /\ LET product == dspCall.sample * dspCall.volume * dspCall.gain
               out == dspCall.out
           IN  IF product >= (INT16_MAX + 1) * VOLUME_GAIN_DIVISOR THEN out = INT16_MAX
               ELSE IF product <= (INT16_MIN - 1) * VOLUME_GAIN_DIVISOR THEN out = INT16_MIN
               ELSE /\ VOLUME_GAIN_DIVISOR * Abs(out) <= Abs(product)
                    /\ Abs(product) < VOLUME_GAIN_DIVISOR * (Abs(out) + 1)
                    /\ (out = 0 \/ (out > 0) = (product > 0))

C18_Witness ==
    /\ dspCall.fn = "applyVolume"
    /\ dspCall.sample = INT16_MIN
    /\ dspCall.volume = VOLUME_MAX
    /\ dspCall.gain = GAIN_MAX
    /\ ~dspCall.overflow
    /\ dspCall.out = INT16_MIN

\* C19: the stored volume is always within [0,100] and the stored gain within
\* [100,400]; a setter stores an in-range argument unchanged and an
\* out-of-range argument as the nearest bound.
C19_Clamped ==
    /\ currentVolume \in 0 .. VOLUME_MAX
    /\ softwareGain \in GAIN_MIN .. GAIN_MAX
    /\ (dspCall.fn = "setVolume") =>
           currentVolume = (IF dspCall.arg > VOLUME_MAX THEN VOLUME_MAX ELSE dspCall.arg)
    /\ (dspCall.fn = "setGain") =>
           softwareGain = (IF dspCall.arg < GAIN_MIN THEN GAIN_MIN
                           ELSE IF dspCall.arg > GAIN_MAX THEN GAIN_MAX ELSE dspCall.arg)

C19_Witness ==
    /\ dspCall.fn = "setGain"
    /\ dspCall.arg = UINT16_MAX
    /\ softwareGain = GAIN_MAX
    /\ currentVolume = VOLUME_MAX

\* C20: detectVoiceActivity returns true exactly when the sum of the squares
\* of the window is greater than threshold^2 times its length (the RMS is
\* above the threshold), whatever was called before, and false for an empty
\* window.
C20_DetectIffRms ==
    (dspCall.fn = "detectVoiceActivity") =>
        (dspCall.result <=>
            /\ WindowCount(dspCall.window) > 0
            /\ SumSquares(dspCall.window) >
                   VAD_THRESHOLD * VAD_THRESHOLD * WindowCount(dspCall.window))

\* C21: a window of zeros gives no activity, and a window whose RMS is at or
\* above the threshold (sum of squares >= threshold^2 times its length),
\* such as one whose samples all equal the threshold, gives activity.
C21_VadBoundary ==
    (dspCall.fn = "detectVoiceActivity" /\ WindowCount(dspCall.window) > 0) =>
        /\ (SumSquares(dspCall.window) = 0) => ~dspCall.result
        /\ (SumSquares(dspCall.window) >=
                VAD_THRESHOLD * VAD_THRESHOLD * WindowCount(dspCall.window)) => dspCall.result

\* C22 (as stated): every binary frame is handed to the audio callback,
\* whatever the voice state, and the frame does not change the voice state.
C22_BinaryAlwaysHanded ==
    [][(sessionLog' # sessionLog /\ sessionLog'.frame = "binary") =>
            /\ "audio" \in sessionLog'.callbacks
            /\ UNCHANGED sessionVars]_vars

\* C22 (amended): a binary frame is handed to the audio callback exactly when
\* one is registered, whatever the voice state; a frame that arrives with no
\* callback registered is dropped; in both cases the voice state and the
\* connection flag stay as they were.
C22_BinaryHandedWhenRegistered ==
    [][(sessionLog' # sessionLog /\ sessionLog'.frame = "binary") =>
            /\ ("audio" \in sessionLog'.callbacks) <=> audioCallback
            /\ audioCallback => (pcM' = "q_take" /\ count' \in 1 .. MaxBurst)
            /\ ~audioCallback => UNCHANGED <<audioState, pcM>>
            /\ UNCHANGED sessionVars]_vars

C22_Witness ==
    /\ sessionLog.frame = "binary"
    /\ "audio" \in sessionLog.callbacks
    /\ audioCallback
    /\ currentVoiceState = VOICE_PROCESSING
    /\ pcM = "q_take"

\* C23: the playback task always has a step to take, whatever the channel
\* state: it is never blocked by a connection event (at its take it either
\* obtains the mutex or times out and starts its loop again), so it goes on
\* dequeuing and applying its start, completion and underrun logic while the
\* channel is disconnected.
C23_TaskNeverBlocked == ENABLED (audioPlaybackTask \/ TaskTakeTimeout)

C23_Witness ==
    /\ ~wsConnected
    /\ currentVoiceState = VOICE_DISCONNECTED
    /\ pcC = "copy"
    /\ toRead > 0
    /\ bufferPlaying

InProduceSection == pcM = "q_loop"
InResetSection == pcM \in {"clr_head", "clr_tail", "clr_playing", "clr_finished", "clr_give"}
InDequeueSection == pcC \in {"copy", "give"}

\* C25: the write loop of produce, the dequeue copy of the consumer and the
\* cursor reset of interrupt are mutually exclusive: no two of them are
\* inside their section together, and each is inside only with the mutex.
C25_MutualExclusion ==
    /\ ~(InProduceSection /\ InResetSection)
    /\ ~(InProduceSection /\ InDequeueSection)
    /\ ~(InResetSection /\ InDequeueSection)
    /\ InDequeueSection => bufferMutex = "task"
    /\ (InProduceSection \/ InResetSection) => bufferMutex = "main"

C25_Witness ==
    /\ pcM = "clr_tail"
    /\ bufferMutex = "main"
    /\ pcC = "take"
    /\ toRead > 0

\* C26: the number of samples the consumer dequeues is at most the occupancy
\* at the moment it holds the mutex, so the read cursor never passes the
\* write cursor, whatever ran between its unlocked occupancy check and its
\* locked copy.
C26_DequeueWithinOccupancy == (pcC = "copy") => (toRead <= getBufferedSamples)

\* The steps of a context whose take finds the mutex held: produce returns 0
\* with both cursors unchanged, the consumer starts its loop again without
\* dequeuing, the clear skips its reset.
C27_TimeoutStep ==
    /\ (pcM = "q_take" /\ bufferMutex # "free" /\ pcM' # pcM) =>
           /\ pcM' = "q_fail"
           /\ toWrite' = 0
           /\ UNCHANGED <<engineVars, liveSlots, discarded, extraVars>>
    /\ (pcC = "take" /\ bufferMutex # "free" /\ pcC' # pcC) =>
           /\ pcC' = "top"
           /\ toRead' = 0
           /\ UNCHANGED <<engineVars, liveSlots, discarded, extraVars, spk>>
    /\ (pcM = "clr_take" /\ bufferMutex # "free" /\ pcM' # pcM) =>
           /\ pcM' = "clr_zero"
           /\ UNCHANGED <<engineVars, liveSlots, discarded, extraVars>>

\* A context that waits for the mutex always has a step: the take or its
\* timeout.
C27_NoBlock ==
    /\ (pcC = "take") => ENABLED (TaskTake \/ TaskTakeTimeout)
    /\ (pcM = "q_take") => ENABLED (QueueTake \/ QueueTakeTimeout)
    /\ (pcM = "clr_take") => ENABLED (ClearTake \/ ClearTakeTimeout)

\* C27: lock acquisition is bounded and fails open: a take that times out
\* makes produce return 0 with both cursors unchanged and makes the consumer
\* skip the cycle without dequeuing, and no context waits for the mutex
\* forever.
C27_FailOpen == [][C27_TimeoutStep]_vars /\ []C27_NoBlock

C27_Witness ==
    /\ pcM = "q_fail"
    /\ toWrite = 0
    /\ count > 0
    /\ bufferMutex = "task"
    /\ pcC = "copy"

C29_OnlyChannelEvents ==
    [][/\ (currentVoiceState' # currentVoiceState) =>
              (WsConnected \/ WsDisconnected \/ disconnectVoice \/ handleServerMessage)
       /\ (\/ audioPlaybackTask
           \/ LockTimeout
           \/ (\E ok \in BOOLEAN : sendVoiceAudio(ok))
           \/ SendReturn
           \/ CallSendVoiceSilence
           \/ queueAudioData) => UNCHANGED sessionVars]_vars

C29_Witness ==
    /\ currentVoiceState = VOICE_SPEAKING
    /\ wsConnected
    /\ bufferPlaying
    /\ pcC = "write"
    /\ toRead > 0
    /\ pcM = "send_ret"
    /\ sendCalledBin

\* The value of a decimal digit, and -1 for any other character.
DigitValue(c) ==
    CASE c = "0" -> 0 [] c = "1" -> 1 [] c = "2" -> 2 [] c = "3" -> 3 [] c = "4" -> 4
      [] c = "5" -> 5 [] c = "6" -> 6 [] c = "7" -> 7 [] c = "8" -> 8 [] c = "9" -> 9
      [] OTHER -> -1

RECURSIVE SplitDots(_, _)
\* The labels of a host: the runs of characters between its dots.
SplitDots(str, label) ==
    IF str = <<>> THEN <<label>>
    ELSE IF Head(str) = "." THEN <<label>> \o SplitDots(Tail(str), <<>>)
    ELSE SplitDots(Tail(str), Append(label, Head(str)))

RECURSIVE OctetValue(_, _)
\* The number a label of one to three digits stands for, -1 for any other.
OctetValue(label, acc) ==
    IF label = <<>> THEN acc
    ELSE IF DigitValue(Head(label)) < 0 THEN -1
    ELSE OctetValue(Tail(label), 10 * acc + DigitValue(Head(label)))

Octet(label) == IF Len(label) \in 1 .. 3 THEN OctetValue(label, 0) ELSE -1

\* 10.0.0.0/8, 172.16.0.0/12, 192.168.0.0/16, 127.0.0.0/8 and localhost
IsPrivateAddress(server) ==
    LET labels == SplitDots(server, <<>>)
    IN  \/ server = <<"l", "o", "c", "a", "l", "h", "o", "s", "t">>
        \/ /\ Len(labels) = 4
           /\ \A i \in 1 .. 4 : Octet(labels[i]) \in 0 .. 255
           /\ \/ Octet(labels[1]) = 10
              \/ Octet(labels[1]) = 172 /\ Octet(labels[2]) \in 16 .. 31
              \/ Octet(labels[1]) = 192 /\ Octet(labels[2]) = 168
              \/ Octet(labels[1]) = 127

\* C30: the socket is begun without TLS exactly when the server is a private
\* or loopback address or localhost; for every other server, public
\* addresses and host names that begin like a private address included, it
\* is begun with TLS.
C30_TlsUnlessPrivate ==
    transport.begun => (transport.ssl <=> ~IsPrivateAddress(transport.server))

\* C31: when initRingBuffer could not allocate the ring buffer, every
\* queueAudioData call returns 0 without waiting for the mutex, the cursors
\* stay at 0 (occupancy 0, nothing live), and the playback task neither sets
\* the playing flag nor reaches the steps that read the buffer.
C31_NoBlock ==
    (~audioRingBuffer /\ pcM = "q_take") => ENABLED QueueTake

C31_AllocationFailure ==
    ~audioRingBuffer =>
        /\ ringBufferHead = 0
        /\ ringBufferTail = 0
        /\ getBufferedSamples = 0
        /\ liveSlots = {}
        /\ pcM \notin {"q_loop", "q_ret"}
        /\ (pcM = "q_fail" => toWrite = 0)
        /\ ~bufferPlaying
        /\ pcC \in {"top", "chk_head", "chk_tail", "chk_sf"}
        /\ spk = "zeroed"
        /\ C31_NoBlock

\* Without a buffer, a produce call has returned 0 while the stream is marked
\* finished and the playback task is at its start check.
C31_Witness ==
    /\ ~audioRingBuffer
    /\ pcM = "q_fail"
    /\ count > 0
    /\ toWrite = 0
    /\ streamFinished
    /\ pcC = "chk_sf"

\* C32: an iteration of the playback task dequeues one chunk of at most
\* AUDIO_PLAYBACK_CHUNK samples: the count is min(occupancy seen, chunk size)
\* and at least 1; the copy advances the tail by exactly that count, modulo
\* the capacity; nothing but the copy (and the reset of clearAudioBuffer)
\* moves the tail; and that count is what the iteration writes to the output
\* device before it returns to the top of the loop.
C32_ChunkBounded ==
    (pcC \in {"take", "copy", "give", "write"}) =>
        /\ toRead = Min(available, AUDIO_PLAYBACK_CHUNK)
        /\ toRead \in 1 .. AUDIO_PLAYBACK_CHUNK

C32_ChunkStep ==
    /\ ((pcC = "copy" /\ pcC' # "copy") =>
            /\ pcC' = "give"
            /\ ringBufferTail' =
                   (ringBufferTail + Min(available, AUDIO_PLAYBACK_CHUNK)) % AUDIO_RING_BUFFER_SIZE)
    /\ (ringBufferTail' # ringBufferTail =>
            \/ (pcC = "copy" /\ pcC' = "give")
            \/ (pcM = "clr_tail" /\ ringBufferTail' = 0))
    /\ ((pcC = "write" /\ pcC' # "write") =>
            /\ pcC' = "top"
            /\ spk' = "audio"
            /\ UNCHANGED ringBufferTail)

C32_OneChunk == [][C32_ChunkStep /\ C32_ChunkBounded']_vars

\* The task has dequeued a full chunk from a buffer that held more, and is
\* about to write it to the output device with the rest still buffered.
C32_Witness ==
    /\ pcC = "write"
    /\ available > AUDIO_PLAYBACK_CHUNK
    /\ toRead = AUDIO_PLAYBACK_CHUNK
    /\ getBufferedSamples > 0

\* The text frames that only report the session's progress.
AdvisoryFrames ==
    {"voice.listening", "voice.processing", "voice.response", "voice.transcription",
     "voice.error"}

\* C33: the handler of a voice.listening, voice.processing, voice.response,
\* voice.transcription or voice.error frame leaves the ring buffer cursors,
\* the playing flag, the stream-finished flag, the mutex, the output device
\* and the microphone as they were and returns at once; and a step of the
\* session that changes the stream-finished flag, the playing flag, the tail
\* or the devices belongs to the voice.done or the voice.interrupt handler.
C33_AdvisoryStep ==
    /\ ((sessionLog' # sessionLog /\ sessionLog'.frame \in AdvisoryFrames) =>
            UNCHANGED <<engineVars, spk, mic, pcM, liveSlots, discarded>>)
    /\ (<<ringBufferTail, bufferPlaying, streamFinished, spk, mic>>' #
            <<ringBufferTail, bufferPlaying, streamFinished, spk, mic>> =>
                \/ (pcM = "idle" /\ pcM' = "done_mic")
                \/ pcM = "done_mic"
                \/ pcM \in {"clr_head", "clr_tail", "clr_playing", "clr_finished", "clr_zero",
                            "int_mic"})

C33_NoAudioAction == [][C33_AdvisoryStep]_vars

\* A voice.processing frame has been handled while samples are buffered and
\* the stream is marked finished.
C33_Witness ==
    /\ sessionLog.frame = "voice.processing"
    /\ sessionLog.callbacks = {"state"}
    /\ getBufferedSamples > 0
    /\ streamFinished

\* C34: a handler calls the state-change observer exactly when it changes the
\* voice state: once, with the new state as argument, and with the state
\* variable already holding the new state; a handler that leaves the state as
\* it was (for one, voice.listening received in Listening) calls it not at all.
C34_NoticeStep ==
    (sessionLog' # sessionLog \/ currentVoiceState' # currentVoiceState) =>
        IF currentVoiceState' # currentVoiceState
            THEN /\ "state" \in sessionLog'.callbacks
                 /\ sessionLog'.notice =
                        <<[arg |-> currentVoiceState', seen |-> currentVoiceState']>>
            ELSE /\ "state" \notin sessionLog'.callbacks
                 /\ sessionLog'.notice = <<>>

C35_FlagAgreesWithState ==
    wsConnected <=> (currentVoiceState # VOICE_DISCONNECTED)

\* The channel was closed by a close event after a turn: the flag is cleared
\* and the state is Disconnected.
C35_Witness ==
    /\ sessionLog.frame = "close"
    /\ streamFinished
    /\ ~wsConnected
    /\ currentVoiceState = VOICE_DISCONNECTED

\* C36: without an interrupt, the samples the playback task has dequeued for
\* the output device are the first samples queueAudioData accepted, in the
\* order it accepted them, each once; the samples still buffered are the
\* following ones, in order from the tail, so none is lost; this holds across
\* the wrap-around of both cursors.
C36_FifoRefinement ==
    /\ fifo.played = [i \in 1 .. Len(fifo.played) |-> i]
    /\ Len(fifo.played) <= fifo.next
    /\ getBufferedSamples = fifo.next - Len(fifo.played)
    /\ \A k \in 0 .. (getBufferedSamples - 1) :
           fifo.slot[(ringBufferTail + k) % AUDIO_RING_BUFFER_SIZE] = Len(fifo.played) + 1 + k

\* More samples than the buffer has slots have been dequeued (both cursors
\* have wrapped around), a produce call that found the buffer full has
\* dropped a part of its samples, and samples are still buffered.
C36_Witness ==
    /\ Len(fifo.played) > AUDIO_RING_BUFFER_SIZE
    /\ pcM = "q_ret"
    /\ toWrite < count
    /\ ringBufferHead < ringBufferTail

\* C37: a finishAudioStream() called with the buffer empty and the scheduler
\* not playing does not reach into a later turn: when the session is in a
\* turn whose voice.done has not arrived (Listening, Processing or Speaking)
\* and the last finishAudioStream() was such a call, the playback task sets
\* the playing flag only with at least AUDIO_START_THRESHOLD samples buffered.
C37_FinishOnlyThisTurn ==
    [][(/\ ~bufferPlaying
        /\ bufferPlaying'
        /\ finishNote.idleEmpty
        /\ pcM # "done_mic"
        /\ currentVoiceState \in {VOICE_LISTENING, VOICE_PROCESSING, VOICE_SPEAKING}) =>
            getBufferedSamples >= AUDIO_START_THRESHOLD]_vars

\* C38: when the clearAudioBuffer() of a voice.interrupt has returned, and
\* before the main context does anything else (a produce call in
\* particular), isBufferedAudioPlaying() returns false, wherever the playback
\* task is in its loop.
C38_IdleAfterInterrupt ==
    (pcM = "int_mic") => ~isBufferedAudioPlaying

\* The turn is over and no produce call is under way.
ProducerStopped ==
    /\ pcM = "idle"
    /\ currentVoiceState \in {VOICE_IDLE, VOICE_DISCONNECTED}

\* C39: with the playback task scheduled fairly, if from some point on the
\* turn is over and nothing is produced (the turn ended by voice.error or by
\* the channel closing), then from some point on the buffer is empty: every
\* accepted sample has been written to the output device or discarded.
C39_DrainsAfterAbort ==
    (<>[]ProducerStopped) => <>[](getBufferedSamples = 0)

\* The recorder is recording and a full microphone block no longer fits.
RecorderFull ==
    /\ recorder.state = STATE_RECORDING
    /\ recorder.recordingLength + BUFFER_SIZE >= MAX_SAMPLES

\* C40: recording is bounded: once the recording buffer is full the recorder
\* leaves RECORDING, plays the recording back and is IDLE again with the
\* length reset to 0, even if voice is still present.
C40_RecordingBounded ==
    RecorderFull ~> (recorder.state = STATE_IDLE /\ recorder.recordingLength = 0)

\* The recording length stays within the capacity of the buffer.
RecordingWithinCapacity == recorder.recordingLength <= MAX_SAMPLES

====
